---------------------------- MODULE Spec2Model ----------------------------
(***************************************************************************)
(* Verification model of the sphere-tracing renderer (saethrej/sphere-     *)
(* tracing): Scene construction, the structure-of-arrays shape wrappers,   *)
(* the batch distance evaluators, Renderer::getMinDistances and the        *)
(* marching loops of the Renderer.                                         *)
(*                                                                         *)
(* Numbers.  The code computes in double precision.  The model computes    *)
(* on the integer grid: coordinates, radii and extents are integers,       *)
(* sqrt is the floor square root, and rotations are multiples of 90        *)
(* degrees so that sin and cos are integers.  Both the scalar distance     *)
(* functions and the batch evaluators are translated with the same         *)
(* arithmetic, operation by operation.                                     *)
(***************************************************************************)
EXTENDS Integers, Sequences, FiniteSets, TLC

(***************************************************************************)
(* Program constants.                                                      *)
(***************************************************************************)
MAX_OBJECTS == 16
MAX_DISTANCE == 100
REFLECTION_BIAS == 1
NORMAL_DELTA == 1

\* largest representable value (std::numeric_limits<ftype>::max())
FTYPE_MAX == 1000000
\* the value addScene writes into the first numDist buffer entries
DIST_FILL == 999999

(***************************************************************************)
(* Bounds of the exploration.                                              *)
(***************************************************************************)
MaxObjects == 2
MaxAdds == 1
MaxThreads == 2

(***************************************************************************)
(* Arithmetic helpers.                                                     *)
(***************************************************************************)
Abs(x) == IF x < 0 THEN -x ELSE x
Min(a, b) == IF b < a THEN b ELSE a
Clamp(v, lo, hi) == IF v < lo THEN lo ELSE IF hi < v THEN hi ELSE v

RECURSIVE SqrtSearch(_, _, _)
SqrtSearch(n, lo, hi) ==
    IF lo >= hi THEN lo
    ELSE LET mid == (lo + hi + 1) \div 2
         IN IF mid * mid <= n THEN SqrtSearch(n, mid, hi)
                              ELSE SqrtSearch(n, lo, mid - 1)

\* sqrt(): floor square root on the grid
Sqrt(n) == IF n <= 0 THEN 0 ELSE SqrtSearch(n, 0, Min(n, 2000))

\* sin() and cos() of the angles the scenes of the model use
Sin(a) == CASE a % 360 = 0 -> 0 [] a % 360 = 90 -> 1
            [] a % 360 = 180 -> 0 [] a % 360 = 270 -> -1
Cos(a) == CASE a % 360 = 0 -> 1 [] a % 360 = 90 -> 0
            [] a % 360 = 180 -> -1 [] a % 360 = 270 -> 0

(***************************************************************************)
(* Vector (CustomVector.h).  A Vector is a triple <<x, y, z>>.             *)
(***************************************************************************)
VSub(a, b) == <<a[1] - b[1], a[2] - b[2], a[3] - b[3]>>
VAdd(a, b) == <<a[1] + b[1], a[2] + b[2], a[3] + b[3]>>
VScale(a, k) == <<a[1] * k, a[2] * k, a[3] * k>>
VDot(a, b) == a[1] * b[1] + a[2] * b[2] + a[3] * b[3]
absVal(a) == <<Abs(a[1]), Abs(a[2]), Abs(a[3])>>
length(a) == Sqrt(a[1] * a[1] + a[2] * a[2] + a[3] * a[3])

\* Vector::normalize divides every component by the length; a zero vector
\* yields 0/0 in every component, which is the not-a-number vector
NaNVec == <<"nan", "nan", "nan">>
normalize(a) ==
    LET l == length(a)
    IN IF l = 0 THEN NaNVec ELSE <<a[1] \div l, a[2] \div l, a[3] \div l>>

\* Vector::rotate: row-major product of the 3x3 matrix m[0..8] with a
rotate(a, m) ==
    << m[0] * a[1] + m[1] * a[2] + m[2] * a[3],
       m[3] * a[1] + m[4] * a[2] + m[5] * a[3],
       m[6] * a[1] + m[7] * a[2] + m[8] * a[3] >>

(***************************************************************************)
(* Shape and its six subclasses (SphereShapes.cpp).  A shape object is a   *)
(* record; `addr' is the address of the heap object, `name' is the class.  *)
(* The member `type' is declared but no constructor assigns it.            *)
(***************************************************************************)
ShapeTypes == {"PLANE", "BOX", "SPHERE", "TORUS", "OCTAHEDRON", "CONE", "UNKNOWN"}

getShapeType(shapeName) ==
    CASE shapeName = "plane" -> "PLANE"
      [] shapeName = "box" -> "BOX"
      [] shapeName = "cone" -> "CONE"
      [] shapeName = "octahedron" -> "OCTAHEDRON"
      [] shapeName = "sphere" -> "SPHERE"
      [] shapeName = "torus" -> "TORUS"
      [] OTHER -> "UNKNOWN"

\* Shape::Shape: common members and the inverse rotation matrix
Shape(params, addr) ==
    LET rot == params.rotation
        phi == rot[1]
        theta == rot[2]
        xi == rot[3]
    IN [ addr |-> addr,
         reflection |-> params.reflection,
         position |-> params.position,
         rotation |-> rot,
         isRotated |-> (rot[1] # 0 \/ rot[2] # 0 \/ rot[3] # 0),
         inverseRotation |->
            [k \in 0..8 |->
               CASE k = 0 -> Cos(theta) * Cos(xi)
                 [] k = 1 -> Cos(theta) * Sin(xi)
                 [] k = 2 -> -Sin(theta)
                 [] k = 3 -> -Cos(phi) * Sin(xi) + Sin(phi) * Sin(theta) * Cos(xi)
                 [] k = 4 -> Cos(phi) * Cos(xi) + Sin(phi) * Sin(theta) * Sin(xi)
                 [] k = 5 -> Sin(phi) * Cos(theta)
                 [] k = 6 -> Sin(phi) * Sin(xi) + Cos(phi) * Sin(theta) * Cos(xi)
                 [] k = 7 -> -Sin(phi) * Cos(xi) + Cos(phi) * Sin(theta) * Sin(xi)
                 [] k = 8 -> Cos(phi) * Cos(theta)] ]

translate_rotate(shp, pos) == rotate(VSub(pos, shp.position), shp.inverseRotation)

\* the point in the shape's own frame, as every distanceFunction computes it
TrPoint(shp, pos) ==
    IF ~shp.isRotated THEN VSub(pos, shp.position) ELSE translate_rotate(shp, pos)

Plane(p, addr) ==
    Shape(p, addr) @@ [ name |-> "plane",
                        displacement |-> p.params.displacement,
                        normal |-> normalize(p.params.normal) ]
Box(p, addr) ==
    Shape(p, addr) @@ [ name |-> "box", extents |-> p.params.extents ]
Sphere(p, addr) ==
    Shape(p, addr) @@ [ name |-> "sphere", radius |-> p.params.radius ]
Torus(p, addr) ==
    Shape(p, addr) @@ [ name |-> "torus", r1 |-> p.params.r1, r2 |-> p.params.r2 ]
Octahedron(p, addr) ==
    Shape(p, addr) @@ [ name |-> "octahedron", s |-> p.params.s ]
\* k2_dot_inv = 1/(k2*k2) is kept as its denominator k2*k2
Cone(p, addr) ==
    LET form == p.params.form
        k2 == <<form[2] - form[1], 2 * form[3]>>
    IN Shape(p, addr) @@ [ name |-> "cone", form |-> form,
                           k1 |-> <<form[2], form[3]>>,
                           k2 |-> k2,
                           k2_dot_inv |-> k2[1] * k2[1] + k2[2] * k2[2] ]

(***************************************************************************)
(* The scalar distance functions (virtual Shape::distanceFunction).        *)
(***************************************************************************)
Plane_distanceFunction(shp, pointPos) ==
    Abs(VDot(TrPoint(shp, pointPos), shp.normal) - shp.displacement)

\* sum of the squares of the non-negative components of q, then sqrt
BoxDist(q) ==
    Sqrt((IF q[1] >= 0 THEN q[1] * q[1] ELSE 0)
         + (IF q[2] >= 0 THEN q[2] * q[2] ELSE 0)
         + (IF q[3] >= 0 THEN q[3] * q[3] ELSE 0))

Box_distanceFunction(shp, pointPos) ==
    BoxDist(VSub(absVal(TrPoint(shp, pointPos)), shp.extents))

Sphere_distanceFunction(shp, pointPos) ==
    length(VSub(pointPos, shp.position)) - shp.radius

TorusDist(tr, r1, r2) ==
    LET qx == Sqrt(tr[1] * tr[1] + tr[3] * tr[3]) - r1
    IN Sqrt(qx * qx + tr[2] * tr[2]) - r2

Torus_distanceFunction(shp, pointPos) ==
    TorusDist(TrPoint(shp, pointPos), shp.r1, shp.r2)

\* m * 0.57735027 and 0.5 * x on the grid
MulSqrtThird(m) == (m * 577) \div 1000
Half(x) == x \div 2

Octahedron_distanceFunction(shp, pointPos) ==
    LET a == absVal(TrPoint(shp, pointPos))
        s == shp.s
        m == a[1] + a[2] + a[3] - s
        r == <<a[1] * 3 - m, a[2] * 3 - m, a[3] * 3 - m>>
        q == IF r[1] < 0 THEN a
             ELSE IF r[2] < 0 THEN <<a[2], a[3], a[1]>>
             ELSE <<a[3], a[1], a[2]>>
        y_s == q[2] - s
        to_clamp == Half(q[3] - y_s)
        k == IF to_clamp < 0 THEN 0 ELSE (IF to_clamp > s THEN s ELSE to_clamp)
    IN IF r[1] >= 0 /\ r[2] >= 0 /\ r[3] >= 0
       THEN MulSqrtThird(m)
       ELSE length(<<q[1], y_s + k, q[3] - k>>)

\* k * clamp(n * inv, 0.0, 1.0), where inv is 1/d and is carried as d;
\* d = 0 stands for a stored 0.0
MulClamp(k, n, d) == IF d = 0 THEN 0 ELSE (k * Clamp(n, 0, d)) \div d

\* the part of the cone distance after the point is in the cone's frame
ConeDist(rotP, r1, r2, h, k1, k2, inv) ==
    LET q == <<Sqrt(rotP[1] * rotP[1] + rotP[3] * rotP[3]), rotP[2]>>
        ca == <<q[1] - Min(q[1], IF q[2] < 0 THEN r1 ELSE r2), Abs(q[2]) - h>>
        n == k2[1] * (k1[1] - q[1]) + k2[2] * (k1[2] - q[2])
        cb == <<q[1] - k1[1] + MulClamp(k2[1], n, inv),
                q[2] - k1[2] + MulClamp(k2[2], n, inv)>>
        s == IF cb[1] < 0 /\ ca[2] < 0 THEN -1 ELSE 1
    IN s * Sqrt(Min(ca[1] * ca[1] + ca[2] * ca[2], cb[1] * cb[1] + cb[2] * cb[2]))

Cone_distanceFunction(shp, pointPos) ==
    ConeDist(TrPoint(shp, pointPos), shp.form[1], shp.form[2], shp.form[3],
             shp.k1, shp.k2, shp.k2_dot_inv)

\* virtual dispatch on the dynamic class of the object
distanceFunction(shp, pointPos) ==
    CASE shp.name = "plane" -> Plane_distanceFunction(shp, pointPos)
      [] shp.name = "box" -> Box_distanceFunction(shp, pointPos)
      [] shp.name = "sphere" -> Sphere_distanceFunction(shp, pointPos)
      [] shp.name = "torus" -> Torus_distanceFunction(shp, pointPos)
      [] shp.name = "octahedron" -> Octahedron_distanceFunction(shp, pointPos)
      [] shp.name = "cone" -> Cone_distanceFunction(shp, pointPos)

(***************************************************************************)
(* The wrappers (structure of arrays).  Arrays are functions on            *)
(* 0..MAX_OBJECTS-1; `new ftype[MAX_OBJECTS]()' value-initialises them to  *)
(* zero.  iterCounter counts quarters (the code adds 0.25 per shape).      *)
(***************************************************************************)
Slots == 0..(MAX_OBJECTS - 1)
ZeroArray == [i \in Slots |-> 0]

ShapeWrapper ==
    [ xPos |-> ZeroArray, yPos |-> ZeroArray, zPos |-> ZeroArray,
      rotMatrix |-> [i \in 0..(9 * MAX_OBJECTS - 1) |-> 0],
      numElems |-> 0, numIters |-> 0, iterCounter |-> 0 ]

PlaneWrapper ==
    ShapeWrapper @@ [ xNor |-> ZeroArray, yNor |-> ZeroArray, zNor |-> ZeroArray,
                      displacement |-> ZeroArray, planes |-> <<>> ]
BoxWrapper ==
    ShapeWrapper @@ [ xExt |-> ZeroArray, yExt |-> ZeroArray, zExt |-> ZeroArray,
                      boxes |-> <<>> ]
SphereWrapper == ShapeWrapper @@ [ radiuses |-> ZeroArray, spheres |-> <<>> ]
TorusWrapper == ShapeWrapper @@ [ r1s |-> ZeroArray, r2s |-> ZeroArray, tori |-> <<>> ]
OctaWrapper == ShapeWrapper @@ [ s |-> ZeroArray, octas |-> <<>> ]
ConeWrapper ==
    ShapeWrapper @@ [ xForm |-> ZeroArray, yForm |-> ZeroArray, zForm |-> ZeroArray,
                      xK1 |-> ZeroArray, yK1 |-> ZeroArray,
                      xK2 |-> ZeroArray, yK2 |-> ZeroArray,
                      k2DotInv |-> ZeroArray, cones |-> <<>> ]

\* ShapeWrapper::addShape: position and rotation matrix at slot numElems,
\* numIters = ceil(iterCounter)
ShapeWrapper_addShape(w, shape) ==
    LET n == w.numElems
    IN [w EXCEPT !.xPos[n] = shape.position[1],
                 !.yPos[n] = shape.position[2],
                 !.zPos[n] = shape.position[3],
                 !.rotMatrix[n + 0 * MAX_OBJECTS] = shape.inverseRotation[0],
                 !.rotMatrix[n + 1 * MAX_OBJECTS] = shape.inverseRotation[1],
                 !.rotMatrix[n + 2 * MAX_OBJECTS] = shape.inverseRotation[2],
                 !.rotMatrix[n + 3 * MAX_OBJECTS] = shape.inverseRotation[3],
                 !.rotMatrix[n + 4 * MAX_OBJECTS] = shape.inverseRotation[4],
                 !.rotMatrix[n + 5 * MAX_OBJECTS] = shape.inverseRotation[5],
                 !.rotMatrix[n + 6 * MAX_OBJECTS] = shape.inverseRotation[6],
                 !.rotMatrix[n + 7 * MAX_OBJECTS] = shape.inverseRotation[7],
                 !.rotMatrix[n + 8 * MAX_OBJECTS] = shape.inverseRotation[8],
                 !.iterCounter = w.iterCounter + 1,
                 !.numIters = (w.iterCounter + 1 + 3) \div 4]

addPlane(w, plane) ==
    LET b == ShapeWrapper_addShape(w, plane)
        n == b.numElems
    IN [b EXCEPT !.planes = Append(@, plane),
                 !.xNor[n] = plane.normal[1],
                 !.yNor[n] = plane.normal[2],
                 !.zNor[n] = plane.normal[3],
                 !.displacement[n] = plane.displacement,
                 !.numElems = n + 1]

addBox(w, box) ==
    LET b == ShapeWrapper_addShape(w, box)
        n == b.numElems
    IN [b EXCEPT !.boxes = Append(@, box),
                 !.xExt[n] = box.extents[1],
                 !.yExt[n] = box.extents[2],
                 !.zExt[n] = box.extents[3],
                 !.numElems = n + 1]

\* addSphere without the final numElems++
addSphere_noCount(w, sph) ==
    LET b == ShapeWrapper_addShape(w, sph)
        n == b.numElems
    IN [b EXCEPT !.spheres = Append(@, sph),
                 !.radiuses[n] = sph.radius]

addSphere(w, sph) ==
    LET b == ShapeWrapper_addShape(w, sph)
        n == b.numElems
    IN [b EXCEPT !.spheres = Append(@, sph),
                 !.radiuses[n] = sph.radius,
                 !.numElems = n + 1]

addTorus(w, torus) ==
    LET b == ShapeWrapper_addShape(w, torus)
        n == b.numElems
    IN [b EXCEPT !.tori = Append(@, torus),
                 !.r1s[n] = torus.r1,
                 !.r2s[n] = torus.r2,
                 !.numElems = n + 1]

addOcta(w, octa) ==
    LET b == ShapeWrapper_addShape(w, octa)
        n == b.numElems
    IN [b EXCEPT !.octas = Append(@, octa),
                 !.s[n] = octa.s,
                 !.numElems = n + 1]

addCone(w, cone) ==
    LET b == ShapeWrapper_addShape(w, cone)
        n == b.numElems
    IN [b EXCEPT !.cones = Append(@, cone),
                 !.xForm[n] = cone.form[1],
                 !.yForm[n] = cone.form[2],
                 !.zForm[n] = cone.form[3],
                 !.xK1[n] = cone.k1[1],
                 !.yK1[n] = cone.k1[2],
                 !.xK2[n] = cone.k2[1],
                 !.yK2[n] = cone.k2[2],
                 !.k2DotInv[n] = cone.k2_dot_inv,
                 !.numElems = n + 1]

(***************************************************************************)
(* The batch evaluators (vectDistFunc).  Each AVX register holds four      *)
(* lanes; <Kind>_vectDistLane is the value the code stores for the lane    *)
(* that reads slot j of the wrapper's arrays, and vectDistFunc is the      *)
(* group of four lanes idx..idx+3.                                         *)
(***************************************************************************)
LaneTr(w, pos, j) == <<pos[1] - w.xPos[j], pos[2] - w.yPos[j], pos[3] - w.zPos[j]>>

\* rotMatrix + idx + k*MAX_OBJECTS, lane j
Rot(w, k, j) == w.rotMatrix[j + k * MAX_OBJECTS]

\* the rotation as Box, Plane, Torus and Octahedron compute it: three new
\* registers from the three translated ones
LaneRot(w, t, j) ==
    << Rot(w, 2, j) * t[3] + (Rot(w, 1, j) * t[2] + Rot(w, 0, j) * t[1]),
       Rot(w, 5, j) * t[3] + (Rot(w, 4, j) * t[2] + Rot(w, 3, j) * t[1]),
       Rot(w, 8, j) * t[3] + (Rot(w, 7, j) * t[2] + Rot(w, 6, j) * t[1]) >>

Plane_vectDistLane(w, pos, j) ==
    LET r == LaneRot(w, LaneTr(w, pos, j), j)
        xScal == r[1] * w.xNor[j]
        yScal == r[2] * w.yNor[j] + xScal
        scalProd == r[3] * w.zNor[j] + yScal
    IN Abs(scalProd - w.displacement[j])

Box_vectDistLane(w, pos, j) ==
    LET r == LaneRot(w, LaneTr(w, pos, j), j)
        xq == Abs(r[1]) - w.xExt[j]
        yq == Abs(r[2]) - w.yExt[j]
        zq == Abs(r[3]) - w.zExt[j]
        tmp1 == IF xq >= 0 THEN xq * xq ELSE 0
        tmp2 == IF yq >= 0 THEN yq * yq ELSE 0
        tmp3 == IF zq >= 0 THEN zq * zq ELSE 0
    IN Sqrt((tmp1 + tmp2) + tmp3)

Sphere_vectDistLane(w, pos, j) ==
    LET t == LaneTr(w, pos, j)
    IN Sqrt(t[1] * t[1] + (t[2] * t[2] + t[3] * t[3])) - w.radiuses[j]

Torus_vectDistLane(w, pos, j) ==
    LET r == LaneRot(w, LaneTr(w, pos, j), j)
        vectorLength == Sqrt(r[3] * r[3] + r[1] * r[1])
        vectorLengthR1 == vectorLength - w.r1s[j]
        q == Sqrt(r[2] * r[2] + vectorLengthR1 * vectorLengthR1)
    IN q - w.r2s[j]

Octahedron_vectDistLane(w, pos, j) ==
    LET r == LaneRot(w, LaneTr(w, pos, j), j)
        s_vect == w.s[j]
        x_abs == Abs(r[1])
        y_abs == Abs(r[2])
        z_abs == Abs(r[3])
        m == ((x_abs + y_abs) + z_abs) - s_vect
        x_mask == (x_abs * 3 - m) < 0
        y_mask == (y_abs * 3 - m) < 0
        z_mask == (z_abs * 3 - m) < 0
        m_ret == MulSqrtThird(m)
        m_mask == x_mask \/ y_mask \/ z_mask
        new_y == IF x_mask THEN y_abs ELSE IF y_mask THEN z_abs
                 ELSE IF z_mask THEN x_abs ELSE 0
        new_x == IF x_mask THEN x_abs ELSE IF y_mask THEN y_abs
                 ELSE IF z_mask THEN z_abs ELSE 0
        new_z == IF x_mask THEN z_abs ELSE IF y_mask THEN x_abs
                 ELSE IF z_mask THEN y_abs ELSE 0
        y_s == new_y - s_vect
        clamp == Half(new_z - y_s)
        k_0 == IF clamp < 0 THEN 0 ELSE clamp
        k == IF s_vect < clamp THEN s_vect ELSE k_0
        sqrt_root == Sqrt((new_z - k) * (new_z - k)
                          + (new_x * new_x + (y_s + k) * (y_s + k)))
    IN IF m_mask THEN sqrt_root ELSE m_ret

\* Cone::vectDistFunc rotates in place: xPos is overwritten before the
\* second row reads it, and yPos before the third row reads it
Cone_vectDistLane(w, pos, j) ==
    LET t == LaneTr(w, pos, j)
        xPos == t[3] * Rot(w, 2, j) + (t[2] * Rot(w, 1, j) + t[1] * Rot(w, 0, j))
        yPos == t[3] * Rot(w, 5, j) + (t[2] * Rot(w, 4, j) + xPos * Rot(w, 3, j))
        zPos == t[3] * Rot(w, 8, j) + (yPos * Rot(w, 7, j) + xPos * Rot(w, 6, j))
        q_x == Sqrt(zPos * zPos + xPos * xPos)
        to_min == IF yPos < 0 THEN w.xForm[j] ELSE w.yForm[j]
        ca_x == q_x - Min(q_x, to_min)
        ca_y == Abs(yPos) - w.zForm[j]
        clamp_0 == w.yK2[j] * (w.yK1[j] - yPos) + w.xK2[j] * (w.xK1[j] - q_x)
        cb_x == (MulClamp(w.xK2[j], clamp_0, w.k2DotInv[j]) + q_x) - w.xK1[j]
        cb_y == (MulClamp(w.yK2[j], clamp_0, w.k2DotInv[j]) + yPos) - w.yK1[j]
        s == IF cb_x < 0 /\ ca_y < 0 THEN -1 ELSE 1
        ca_dot == ca_y * ca_y + ca_x * ca_x
        cb_dot == cb_y * cb_y + cb_x * cb_x
    IN s * Sqrt(Min(ca_dot, cb_dot))

(***************************************************************************)
(* Scene (Scene.cpp).  A scene file is a record with the camera position,  *)
(* the light position and the sequence `objects' of shape descriptions.    *)
(***************************************************************************)
\* the loop iteration without the decrement of the default branch
LoadObject_countUnknown(sc, shp, addr) ==
    LET type == getShapeType(shp.kind)
    IN CASE type = "BOX" ->
              LET box == Box(shp, addr)
              IN [sc EXCEPT !.numShapes = @ + 1, !.shapes = Append(@, box),
                            !.wBox = addBox(@, box)]
         [] type = "CONE" ->
              LET cone == Cone(shp, addr)
              IN [sc EXCEPT !.numShapes = @ + 1, !.shapes = Append(@, cone),
                            !.wCone = addCone(@, cone)]
         [] type = "OCTAHEDRON" ->
              LET oct == Octahedron(shp, addr)
              IN [sc EXCEPT !.numShapes = @ + 1, !.shapes = Append(@, oct),
                            !.wOcta = addOcta(@, oct)]
         [] type = "PLANE" ->
              LET plane == Plane(shp, addr)
              IN [sc EXCEPT !.numShapes = @ + 1, !.shapes = Append(@, plane),
                            !.wPlane = addPlane(@, plane)]
         [] type = "SPHERE" ->
              LET sphe == Sphere(shp, addr)
              IN [sc EXCEPT !.numShapes = @ + 1, !.shapes = Append(@, sphe),
                            !.wSphere = addSphere(@, sphe)]
         [] type = "TORUS" ->
              LET torus == Torus(shp, addr)
              IN [sc EXCEPT !.numShapes = @ + 1, !.shapes = Append(@, torus),
                            !.wTorus = addTorus(@, torus)]
         [] OTHER -> [sc EXCEPT !.numShapes = @ + 1]

\* one iteration of the constructor's loop over the objects
LoadObject(sc, shp, addr) ==
    LET type == getShapeType(shp.kind)
    IN CASE type = "BOX" ->
              LET box == Box(shp, addr)
              IN [sc EXCEPT !.numShapes = @ + 1, !.shapes = Append(@, box),
                            !.wBox = addBox(@, box)]
         [] type = "CONE" ->
              LET cone == Cone(shp, addr)
              IN [sc EXCEPT !.numShapes = @ + 1, !.shapes = Append(@, cone),
                            !.wCone = addCone(@, cone)]
         [] type = "OCTAHEDRON" ->
              LET oct == Octahedron(shp, addr)
              IN [sc EXCEPT !.numShapes = @ + 1, !.shapes = Append(@, oct),
                            !.wOcta = addOcta(@, oct)]
         [] type = "PLANE" ->
              LET plane == Plane(shp, addr)
              IN [sc EXCEPT !.numShapes = @ + 1, !.shapes = Append(@, plane),
                            !.wPlane = addPlane(@, plane)]
         [] type = "SPHERE" ->
              LET sphe == Sphere(shp, addr)
              IN [sc EXCEPT !.numShapes = @ + 1, !.shapes = Append(@, sphe),
                            !.wSphere = addSphere(@, sphe)]
         [] type = "TORUS" ->
              LET torus == Torus(shp, addr)
              IN [sc EXCEPT !.numShapes = @ + 1, !.shapes = Append(@, torus),
                            !.wTorus = addTorus(@, torus)]
         [] OTHER -> [sc EXCEPT !.numShapes = (@ + 1) - 1]

RECURSIVE LoadObjects(_, _, _)
LoadObjects(sc, objects, i) ==
    IF i > Len(objects) THEN sc
    ELSE LoadObjects(LoadObject(sc, objects[i], i), objects, i + 1)

\* Scene::Scene: six empty wrappers, camera and light, then the objects
Scene(file) ==
    LoadObjects([ wBox |-> BoxWrapper, wCone |-> ConeWrapper, wOcta |-> OctaWrapper,
                  wPlane |-> PlaneWrapper, wSphere |-> SphereWrapper,
                  wTorus |-> TorusWrapper,
                  cameraPos |-> file.cameraPos, lightPos |-> file.lightPos,
                  numShapes |-> 0, shapes |-> <<>> ],
                file.objects, 1)

(***************************************************************************)
(* Renderer::addScene and Renderer::getMinDistances (Renderer.cpp).        *)
(***************************************************************************)
rndToFour(numShapes) ==
    4 * (numShapes \div 4 + (IF numShapes % 4 = 0 THEN 0 ELSE 1))

\* the order in which getMinDistances evaluates the kinds
KindOrder == <<"box", "cone", "octahedron", "plane", "sphere", "torus">>

WrapperOf(sc, kind) ==
    CASE kind = "box" -> sc.wBox [] kind = "cone" -> sc.wCone
      [] kind = "octahedron" -> sc.wOcta [] kind = "plane" -> sc.wPlane
      [] kind = "sphere" -> sc.wSphere [] kind = "torus" -> sc.wTorus

\* the wrapper's vector of shape pointers (boxes, cones, ...)
ListOf(sc, kind) ==
    CASE kind = "box" -> sc.wBox.boxes [] kind = "cone" -> sc.wCone.cones
      [] kind = "octahedron" -> sc.wOcta.octas [] kind = "plane" -> sc.wPlane.planes
      [] kind = "sphere" -> sc.wSphere.spheres [] kind = "torus" -> sc.wTorus.tori

vectDistLane(sc, kind, pos, j) ==
    CASE kind = "box" -> Box_vectDistLane(sc.wBox, pos, j)
      [] kind = "cone" -> Cone_vectDistLane(sc.wCone, pos, j)
      [] kind = "octahedron" -> Octahedron_vectDistLane(sc.wOcta, pos, j)
      [] kind = "plane" -> Plane_vectDistLane(sc.wPlane, pos, j)
      [] kind = "sphere" -> Sphere_vectDistLane(sc.wSphere, pos, j)
      [] kind = "torus" -> Torus_vectDistLane(sc.wTorus, pos, j)

\* where destPtr stands, relative to dists, when the loop of each kind of
\* KindOrder starts, and (7th entry) after the last loop: every iteration
\* advances it by four
WriteOffsets(sc) ==
    LET o2 == 4 * sc.wBox.numIters
        o3 == o2 + 4 * sc.wCone.numIters
        o4 == o3 + 4 * sc.wOcta.numIters
        o5 == o4 + 4 * sc.wPlane.numIters
        o6 == o5 + 4 * sc.wSphere.numIters
        o7 == o6 + 4 * sc.wTorus.numIters
    IN <<0, o2, o3, o4, o5, o6, o7>>

NumWritten(sc) == WriteOffsets(sc)[7]

\* the kind whose loop writes entry n of dists
KindWriting(offs, n) ==
    CHOOSE k \in 1..6 : offs[k] <= n /\ n < offs[k + 1]

\* the values the six loops store at dists[0 .. NumWritten-1]
Evaluate(sc, ray) ==
    LET offs == WriteOffsets(sc)
    IN [n \in 0..(offs[7] - 1) |->
          LET k == KindWriting(offs, n)
          IN vectDistLane(sc, KindOrder[k], ray, n - offs[k])]

\* a scan iteration that forgets to hand the old minimum down to min2Dist
ScanStep_noShift(acc, d, i) ==
    IF d < acc[1] THEN <<d, acc[2], i>>
    ELSE IF d < acc[2] THEN <<acc[1], d, acc[3]>>
    ELSE acc

\* one iteration of the scan loop: acc is <<minDist, min2Dist, minIdx>>
ScanStep(acc, d, i) ==
    IF d < acc[1] THEN <<d, acc[1], i>>
    ELSE IF d < acc[2] THEN <<acc[1], d, acc[3]>>
    ELSE acc

RECURSIVE ScanFrom(_, _, _, _)
ScanFrom(dists, n, i, acc) ==
    IF i >= n THEN acc
    ELSE ScanFrom(dists, n, i + 1, ScanStep(acc, dists[i], i))

\* the linear scan over dists[0 .. n-1]
Scan(dists, n) == ScanFrom(dists, n, 0, <<FTYPE_MAX, FTYPE_MAX, -1>>)

\* an indeterminate pointer: what reading a std::vector outside its size
\* yields
GARBAGE == [name |-> "garbage", addr |-> -1]

\* list[i] of a std::vector of shape pointers (0-based)
At(list, i) == IF 0 <= i /\ i < Len(list) THEN list[i + 1] ELSE GARBAGE

\* the threshold chain that maps minIdx to a shape pointer; closestShape
\* keeps its old value when no branch is taken
MapIndex(sc, th, minIdx, old) ==
    IF minIdx < th.threshBox THEN At(sc.wBox.boxes, minIdx)
    ELSE IF minIdx < th.threshCone THEN At(sc.wCone.cones, minIdx - th.threshBox)
    ELSE IF minIdx < th.threshOcta THEN At(sc.wOcta.octas, minIdx - th.threshCone)
    ELSE IF minIdx < th.threshPlane THEN At(sc.wPlane.planes, minIdx - th.threshOcta)
    ELSE IF minIdx < th.threshSphere THEN At(sc.wSphere.spheres, minIdx - th.threshPlane)
    ELSE IF minIdx < th.threshTorus THEN At(sc.wTorus.tori, minIdx - th.threshSphere)
    ELSE old

\* the buffer after the six loops of thread tid: entry base+n receives
\* Evaluate[n] when it lies inside the allocation
WriteBuffer(buf, base, vals) ==
    [i \in DOMAIN buf |->
        IF base <= i /\ (i - base) \in DOMAIN vals THEN vals[i - base] ELSE buf[i]]

\* Renderer::getMinDistances, first half: the buffer after the six loops of
\* thread tid, whose destPtr starts at distances + numDist * tid
EvalLoops(sc, nDist, buf, tid, ray) == WriteBuffer(buf, nDist * tid, Evaluate(sc, ray))

\* the loops store beyond the end of the allocation
Overflows(sc, nDist, buf, tid) == nDist * tid + NumWritten(sc) > Cardinality(DOMAIN buf)

\* Renderer::getMinDistances, second half: the scan of dists[0..numDist-1]
\* in the buffer `buf' the loops left, and the mapping of minIdx
ScanAndMap(sc, th, nDist, buf, tid, old) ==
    LET res == Scan([i \in 0..(nDist - 1) |-> buf[nDist * tid + i]], nDist)
    IN [ minDist |-> res[1], min2Dist |-> res[2], minIdx |-> res[3],
         closestShape |-> MapIndex(sc, th, res[3], old) ]

(***************************************************************************)
(* Inputs of the exploration: shape descriptions, scene files, points.     *)
(***************************************************************************)
NoRot == <<0, 0, 0>>

SphereA == [kind |-> "sphere", position |-> <<0, 0, 5>>, rotation |-> NoRot,
            reflection |-> 0, params |-> [radius |-> 1]]
BoxA == [kind |-> "box", position |-> <<0, 0, 8>>, rotation |-> NoRot,
         reflection |-> 0, params |-> [extents |-> <<2, 2, 1>>]]
BoxR == [kind |-> "box", position |-> <<3, 0, 4>>, rotation |-> <<0, 0, 90>>,
         reflection |-> 0, params |-> [extents |-> <<1, 2, 1>>]]
ConeA == [kind |-> "cone", position |-> <<0, 3, 6>>, rotation |-> NoRot,
          reflection |-> 0, params |-> [form |-> <<2, 2, 2>>]]
ConeR == [kind |-> "cone", position |-> <<4, 0, 3>>, rotation |-> <<0, 0, 90>>,
          reflection |-> 0, params |-> [form |-> <<1, 1, 1>>]]
OctaA == [kind |-> "octahedron", position |-> <<0, 0, 12>>, rotation |-> <<90, 0, 0>>,
          reflection |-> 0, params |-> [s |-> 3]]
PlaneA == [kind |-> "plane", position |-> <<0, 0, 20>>, rotation |-> NoRot,
           reflection |-> 0,
           params |-> [normal |-> <<0, 0, -2>>, displacement |-> 0]]
TorusA == [kind |-> "torus", position |-> <<0, 0, 15>>, rotation |-> <<0, 90, 0>>,
           reflection |-> 0, params |-> [r1 |-> 3, r2 |-> 1]]
Teapot == [kind |-> "teapot", position |-> <<0, 0, 1>>, rotation |-> NoRot,
           reflection |-> 0, params |-> [radius |-> 1]]

Catalogue == {SphereA, BoxR, ConeA, ConeR, OctaA, PlaneA, TorusA, Teapot}

\* the descriptions clients build shapes from for Scene::addShape
AddCatalogue == {SphereA, BoxA}

SeqsUpTo(S, n) == UNION {[1..m -> S] : m \in 0..n}

SceneFiles ==
    {[cameraPos |-> <<0, 0, 0>>, lightPos |-> <<0, 0, 0>>, objects |-> objs] :
        objs \in SeqsUpTo(Catalogue, MaxObjects)}

QueryPoints == {<<0, 0, 0>>, <<0, 0, 4>>, <<1, 2, 7>>}

(***************************************************************************)
(* State.                                                                  *)
(***************************************************************************)
NULL == [name |-> "null", addr |-> 0]

\* content of memory that was allocated and never written
UNINIT == "uninit"

VARIABLES
    scene,          \* Renderer::scene: NULL or the Scene object
    numDist,        \* Renderer::numDist
    thresh,         \* Renderer::threshBox .. threshTorus
    distances,      \* Renderer::distances, the buffer (NULL before addScene)
    numThreads,     \* omp_get_max_threads() as seen by addScene
    nAdds,          \* number of Scene::addShape calls made by the client
    crashed,        \* the process has dereferenced an invalid pointer
    ray,            \* argument of the last getMinDistances call
    minDistance,    \* its outputs, as the caller holds them
    min2Distance,
    closestShape,
    minIdx,         \* getMinDistances' local minIdx at its end
    pc,             \* where the client of the Renderer stands
    origin,         \* ray_origin of the march in progress
    dir,            \* its ray_direction
    t,              \* its local t
    totalDistance,  \* its local totalDistance
    distance,       \* the `distance' argument of the sphereTrace or shade call
    maxDist,        \* the `max_dist' argument of ObjectInBetween
    stack,          \* the shade calls in progress, innermost last
    step,           \* what the action just taken did, if it was part of a march
    steps,          \* iterations the march in progress has made
    wpc,            \* per worker of the parallel region: where it stands
    wray,           \* per worker: the ray of its getMinDistances call
    wgrp,           \* per worker: the 4-lane groups its call has stored
    wres,           \* per worker: the outputs of its last completed call
    touched,        \* the <<worker, index>> accesses to the distance buffer
    ctor,           \* the Scene constructor call in progress
    thrown,         \* the exception that left the last constructor call
    live,           \* the heap objects of the Scene that are allocated
    frees,          \* per heap object: how often it has been freed
    handle,         \* the Scene pointer the caller of `new Scene' holds
    probe,          \* a shape, a point and the distances measured there
    lighting,       \* the locals of a shade call after its normal and colours
    image,          \* Renderer::image with the progress of the row workers
    filled,         \* a batch wrapper that receives one shape after another
    prog            \* the main function of an example program

vars == <<scene, numDist, thresh, distances, numThreads, nAdds, crashed,
          ray, minDistance, min2Distance, closestShape, minIdx, pc,
          origin, dir, t, totalDistance, distance, maxDist, stack, step, steps,
          wpc, wray, wgrp, wres, touched,
          ctor, thrown, live, frees, handle, probe, lighting, image,
          filled, prog>>

workerVars == <<wpc, wray, wgrp, wres, touched>>

\* no parallel region is open
NoWorkers ==
    /\ wpc = <<>>
    /\ wray = <<>>
    /\ wgrp = <<>>
    /\ wres = <<>>
    /\ touched = {}

traceVars == <<origin, dir, t, totalDistance, distance, maxDist, stack, step, steps>>

NoStep == [kind |-> "none"]

\* no march has been started
NoTrace ==
    /\ origin = <<0, 0, 0>>
    /\ dir = <<0, 0, 0>>
    /\ t = 0
    /\ totalDistance = 0
    /\ distance = 0
    /\ maxDist = 0
    /\ stack = <<>>
    /\ step = NoStep
    /\ steps = 0

buildVars == <<ctor, thrown, live, frees, handle>>
auxVars == <<filled, prog>>
extVars == <<buildVars, probe, lighting, image, auxVars>>

\* no Scene is being constructed on its own
NoBuild ==
    /\ ctor = [pc |-> "none"]
    /\ thrown = "none"
    /\ live = {}
    /\ frees = <<>>
    /\ handle = NULL

\* nor is a distance function being probed
NoAux ==
    /\ filled = [pc |-> "none"]
    /\ prog = [pc |-> "none"]

NoExt ==
    /\ NoBuild
    /\ probe = [pc |-> "none"]
    /\ lighting = [pc |-> "none"]
    /\ image = NULL
    /\ NoAux

rendererVars == <<scene, numDist, thresh, distances, numThreads>>
queryVars == <<ray, minDistance, min2Distance, closestShape, minIdx>>

\* Renderer::Renderer
Renderer ==
    /\ scene = NULL
    /\ distances = NULL
    /\ numDist = 0
    /\ thresh = [threshBox |-> 0, threshCone |-> 0, threshOcta |-> 0,
                 threshPlane |-> 0, threshSphere |-> 0, threshTorus |-> 0]
    /\ numThreads = 0
    /\ nAdds = 0
    /\ crashed = FALSE
    /\ ray = <<0, 0, 0>>
    /\ minDistance = FTYPE_MAX
    /\ min2Distance = FTYPE_MAX
    /\ closestShape = NULL
    /\ minIdx = -1
    /\ pc = "idle"
    /\ NoTrace
    /\ NoWorkers

Init ==
    /\ Renderer
    /\ NoExt

\* Renderer::addScene after `new Scene(path)' has returned sc: the fields
\* of the Renderer when the call ends
addScene_fields(sc, nt) ==
       LET tB == rndToFour(sc.wBox.numElems)
           tC == tB + rndToFour(sc.wCone.numElems)
           tO == tC + rndToFour(sc.wOcta.numElems)
           tP == tO + rndToFour(sc.wPlane.numElems)
           tS == tP + rndToFour(sc.wSphere.numElems)
           tT == tS + rndToFour(sc.wTorus.numElems)
           nd == rndToFour(sc.wBox.numElems) + rndToFour(sc.wCone.numElems)
                 + rndToFour(sc.wPlane.numElems) + rndToFour(sc.wOcta.numElems)
                 + rndToFour(sc.wSphere.numElems) + rndToFour(sc.wTorus.numElems)
       IN [ scene |-> sc,
            numDist |-> nd,
            numThreads |-> nt,
            distances |-> [i \in 0..(nd * nt - 1) |->
                                IF i < nd THEN DIST_FILL ELSE UNINIT],
            thresh |-> [threshBox |-> tB, threshCone |-> tC, threshOcta |-> tO,
                        threshPlane |-> tP, threshSphere |-> tS, threshTorus |-> tT] ]

\* Renderer::addScene
addScene(file, nt) == addScene_fields(Scene(file), nt)

\* the client calls Renderer::addScene
AddScene(file, nt) ==
    /\ UNCHANGED extVars
    /\ ~crashed
    /\ scene = NULL
    /\ \E r \in {addScene(file, nt)} :
          /\ scene' = r.scene
          /\ numDist' = r.numDist
          /\ numThreads' = r.numThreads
          /\ distances' = r.distances
          /\ thresh' = r.thresh
    /\ UNCHANGED <<nAdds, crashed, queryVars, pc, traceVars, workerVars>>

\* the object a client builds with `new <Kind>(json)' before addShape
NewShape(json, addr) ==
    CASE json.kind = "box" -> Box(json, addr)
      [] json.kind = "cone" -> Cone(json, addr)
      [] json.kind = "octahedron" -> Octahedron(json, addr)
      [] json.kind = "plane" -> Plane(json, addr)
      [] json.kind = "sphere" -> Sphere(json, addr)
      [] json.kind = "torus" -> Torus(json, addr)

\* Scene::addShape(shape).  The switch reads shape->type, which no
\* constructor assigns: `type' ranges over every value the read can yield.
\* A case label of another class makes dynamic_cast return nullptr, which
\* the wrapper's add dereferences.
AddShape(json, type) ==
    /\ UNCHANGED extVars
    /\ ~crashed
    /\ scene # NULL
    /\ pc \in {"idle", "added", "returned"}
    /\ nAdds < MaxAdds
    /\ nAdds' = nAdds + 1
    /\ pc' = "added"
    /\ LET shape == NewShape(json, 100 + nAdds)
           pushed == [scene EXCEPT !.shapes = Append(@, shape), !.numShapes = @ + 1]
       IN IF type = "UNKNOWN"
          THEN /\ scene' = [pushed EXCEPT !.numShapes = @ - 1,
                                          !.shapes = SubSeq(@, 1, Len(@) - 1)]
               /\ UNCHANGED crashed
          ELSE IF type # getShapeType(shape.name)
          THEN /\ scene' = pushed
               /\ crashed' = TRUE
          ELSE /\ crashed' = FALSE
               /\ scene' =
                    CASE type = "BOX" -> [pushed EXCEPT !.wBox = addBox(@, shape)]
                      [] type = "CONE" -> [pushed EXCEPT !.wCone = addCone(@, shape)]
                      [] type = "OCTAHEDRON" -> [pushed EXCEPT !.wOcta = addOcta(@, shape)]
                      [] type = "PLANE" -> [pushed EXCEPT !.wPlane = addPlane(@, shape)]
                      [] type = "SPHERE" -> [pushed EXCEPT !.wSphere = addSphere(@, shape)]
                      [] type = "TORUS" -> [pushed EXCEPT !.wTorus = addTorus(@, shape)]
    /\ UNCHANGED <<numDist, thresh, distances, numThreads, queryVars, traceVars,
                   workerVars>>

\* Renderer::getMinDistances(minDistance, min2Distance, closestShape, p),
\* called outside a parallel region (omp_get_thread_num() = 0).  Stores
\* beyond the allocation either go unnoticed or end the process.
Query(p) ==
    /\ UNCHANGED extVars
    /\ ~crashed
    /\ scene # NULL
    /\ pc' = "returned"
    /\ ray' = p
    /\ distances' = EvalLoops(scene, numDist, distances, 0, p)
    /\ LET r == ScanAndMap(scene, thresh, numDist, distances', 0, closestShape)
       IN /\ minDistance' = r.minDist
          /\ min2Distance' = r.min2Dist
          /\ minIdx' = r.minIdx
          /\ closestShape' = r.closestShape
    /\ crashed' \in (IF Overflows(scene, numDist, distances, 0)
                     THEN {FALSE, TRUE} ELSE {FALSE})
    /\ UNCHANGED <<scene, numDist, thresh, numThreads, nAdds, traceVars, workerVars>>

Next ==
    \/ \E file \in SceneFiles, nt \in 1..MaxThreads : AddScene(file, nt)
    \/ \E json \in AddCatalogue, type \in ShapeTypes : AddShape(json, type)
    \/ \E p \in QueryPoints : Query(p)

Spec == Init /\ [][Next]_vars

(***************************************************************************)
(* Properties.                                                             *)
(***************************************************************************)
\* number of populated slots of the k-th kind of KindOrder
NumElemsOf(sc, k) == WrapperOf(sc, KindOrder[k]).numElems

\* entry n of dists receives the value of a populated slot of some wrapper
SlotPopulated(sc, n) ==
    \E k \in 1..6 : /\ WriteOffsets(sc)[k] <= n
                    /\ n < WriteOffsets(sc)[k] + NumElemsOf(sc, k)

\* getMinDistances has returned to a live caller
Returned == pc = "returned" /\ ~crashed

\* C1: after the construction of a scene with at least one real shape (and
\* no later addShape), the minimum index getMinDistances finds denotes a
\* populated slot and the shape pointer it returns is a shape of the scene.
C1_MinIndexPopulated ==
    (Returned /\ nAdds = 0 /\ scene.numShapes >= 1)
        => /\ SlotPopulated(scene, minIdx)
           /\ \E i \in 1..Len(scene.shapes) : scene.shapes[i] = closestShape

\* C2: for every kind and every populated slot j of its wrapper, the entry
\* the batch evaluator stored for slot j at the query point equals the
\* scalar distanceFunction of the j-th shape added to the wrapper.
C2_BatchEqualsScalar ==
    Returned =>
        \A k \in 1..6 : \A j \in 0..(NumElemsOf(scene, k) - 1) :
            (WriteOffsets(scene)[k] + j) \in DOMAIN distances
                => distances[WriteOffsets(scene)[k] + j]
                      = distanceFunction(ListOf(scene, KindOrder[k])[j + 1], ray)

\* the threshold below which indices belong to the k-th kind, and the one
\* before it
ThreshOf(th, k) ==
    CASE k = 0 -> 0 [] k = 1 -> th.threshBox [] k = 2 -> th.threshCone
      [] k = 3 -> th.threshOcta [] k = 4 -> th.threshPlane
      [] k = 5 -> th.threshSphere [] k = 6 -> th.threshTorus

\* C7: the loops write the kinds in the order box, cone, octahedron, plane,
\* sphere, torus, each kind occupying its populated count rounded up to a
\* multiple of 4, and the thresholds map the buffer index of every
\* populated slot back to the shape stored in that slot.
C7_ThresholdsMapSlots ==
    Returned =>
        \A k \in 1..6 :
            /\ WriteOffsets(scene)[k + 1] - WriteOffsets(scene)[k]
                  = rndToFour(NumElemsOf(scene, k))
            /\ \A j \in 0..(NumElemsOf(scene, k) - 1) :
                  LET i == WriteOffsets(scene)[k] + j
                  IN /\ ThreshOf(thresh, k - 1) <= i
                     /\ i < ThreshOf(thresh, k)
                     /\ MapIndex(scene, thresh, i, NULL)
                           = ListOf(scene, KindOrder[k])[i - ThreshOf(thresh, k - 1) + 1]
                     /\ MapIndex(scene, thresh, i, NULL)
                           = ListOf(scene, KindOrder[k])[j + 1]

\* the places <<k, j>> of the wrappers' pointer lists that hold object a
EntriesOf(sc, a) ==
    {e \in (1..6) \X (1..MAX_OBJECTS) :
        /\ e[2] <= Len(ListOf(sc, KindOrder[e[1]]))
        /\ ListOf(sc, KindOrder[e[1]])[e[2]].addr = a}

\* C10: once the scene is constructed, and after every completed addShape,
\* every shape of the shape list is held by exactly one wrapper, the one
\* of its own kind, exactly once, and numShapes equals the length of the
\* shape list and the sum of the wrappers' populated counts.
C10_ShapesInOneWrapper ==
    (scene # NULL /\ ~crashed) =>
        /\ \A i \in 1..Len(scene.shapes) :
              /\ Cardinality(EntriesOf(scene, scene.shapes[i].addr)) = 1
              /\ \A e \in EntriesOf(scene, scene.shapes[i].addr) :
                    /\ KindOrder[e[1]] = scene.shapes[i].name
                    /\ e[2] <= NumElemsOf(scene, e[1])
        /\ scene.numShapes = Len(scene.shapes)
        /\ scene.numShapes = NumElemsOf(scene, 1) + NumElemsOf(scene, 2)
                              + NumElemsOf(scene, 3) + NumElemsOf(scene, 4)
                              + NumElemsOf(scene, 5) + NumElemsOf(scene, 6)

\* a scene built from a file and then extended by a completed addShape
C10_Witness ==
    /\ scene # NULL /\ ~crashed /\ nAdds >= 1
    /\ Len(scene.shapes) >= 3
    /\ \E i \in 1..Len(scene.shapes) : scene.shapes[i].addr >= 100

\* the registers xPos, yPos, zPos of Cone::vectDistFunc after its three
\* rotation statements, which assign to the registers they read
Cone_vectLocalPoint(w, pos, j) ==
    LET tr == LaneTr(w, pos, j)
        xPos == tr[3] * Rot(w, 2, j) + (tr[2] * Rot(w, 1, j) + tr[1] * Rot(w, 0, j))
        yPos == tr[3] * Rot(w, 5, j) + (tr[2] * Rot(w, 4, j) + xPos * Rot(w, 3, j))
        zPos == tr[3] * Rot(w, 8, j) + (yPos * Rot(w, 7, j) + xPos * Rot(w, 6, j))
    IN <<xPos, yPos, zPos>>

\* the local point the batch evaluator of a kind works with at lane j; the
\* sphere evaluator translates only
vectLocalPoint(sc, kind, pos, j) ==
    CASE kind = "cone" -> Cone_vectLocalPoint(sc.wCone, pos, j)
      [] kind = "sphere" -> LaneTr(sc.wSphere, pos, j)
      [] OTHER -> LaneRot(WrapperOf(sc, kind), LaneTr(WrapperOf(sc, kind), pos, j), j)

\* C22: for every kind whose evaluator rotates, the local point the batch
\* evaluator computes for a populated slot is inverseRotation x (query -
\* position), each rotated component formed from the three translated
\* components: the result of the scalar translate_rotate of that shape.
C22_BatchRotation ==
    Returned =>
        \A k \in 1..6 : \A j \in 0..(NumElemsOf(scene, k) - 1) :
            KindOrder[k] # "sphere" =>
                vectLocalPoint(scene, KindOrder[k], ray, j)
                    = translate_rotate(ListOf(scene, KindOrder[k])[j + 1], ray)

\* C23: whenever getMinDistances runs, numDist and the six thresholds of
\* the Renderer equal the values derived from the wrappers' current
\* populated counts, whatever addScene, Scene::addShape and query calls
\* came before, so the loops write no more than numDist entries.
C23_DerivedFieldsCurrent ==
    pc = "returned" =>
        /\ numDist = addScene_fields(scene, numThreads).numDist
        /\ thresh = addScene_fields(scene, numThreads).thresh
        /\ NumWritten(scene) <= numDist

\* C28: after any sequence of add operations the group count of every
\* wrapper equals its populated count divided by 4 and rounded up, so a
\* pass of getMinDistances writes exactly numDist entries (the sum over
\* the kinds of 4 * group count) and every entry of the range the scan
\* reads has been overwritten by the pass.
C28_GroupsCoverCounts ==
    /\ scene # NULL =>
          \A k \in 1..6 :
             4 * WrapperOf(scene, KindOrder[k]).numIters = rndToFour(NumElemsOf(scene, k))
    /\ pc = "returned" =>
          /\ NumWritten(scene) = numDist
          /\ \A i \in 0..(numDist - 1) : distances[i] # DIST_FILL

(***************************************************************************)
(* The scan of getMinDistances on its own: the loops have left arbitrary   *)
(* ordinary distances (below the initial DBL_MAX) in dists[0..numDist-1],  *)
(* numDist being a positive multiple of four.                              *)
(***************************************************************************)
MaxGroups == 1

ScanValues == {-1, 0, 1, 2}

InitScan ==
    /\ scene = NULL
    /\ thresh = [threshBox |-> 0, threshCone |-> 0, threshOcta |-> 0,
                 threshPlane |-> 0, threshSphere |-> 0, threshTorus |-> 0]
    /\ numThreads = 1
    /\ nAdds = 0
    /\ crashed = FALSE
    /\ ray = <<0, 0, 0>>
    /\ minDistance = FTYPE_MAX
    /\ min2Distance = FTYPE_MAX
    /\ closestShape = NULL
    /\ minIdx = -1
    /\ pc = "scan"
    /\ NoTrace
    /\ NoWorkers
    /\ NoExt
    /\ numDist \in {4 * g : g \in 1..MaxGroups}
    /\ distances \in [0..(numDist - 1) -> ScanValues]

\* Renderer::getMinDistances, the scan loop
ApplyScan ==
    /\ UNCHANGED extVars
    /\ pc = "scan"
    /\ pc' = "scanned"
    /\ LET res == Scan(distances, numDist)
       IN /\ minDistance' = res[1]
          /\ min2Distance' = res[2]
          /\ minIdx' = res[3]
    /\ UNCHANGED <<rendererVars, nAdds, crashed, ray, closestShape, traceVars,
                   workerVars>>

NextScan == ApplyScan

SpecScan == InitScan /\ [][NextScan]_vars

\* C8: whatever ordinary distances the buffer holds, the scan returns the
\* smallest value as minimum, the first position holding it as index, and
\* the smallest value among the other positions as second minimum (the
\* second smallest counted with multiplicity); minimum <= second minimum.
C8_ScanMinima ==
    pc = "scanned" =>
        /\ minIdx \in 0..(numDist - 1)
        /\ distances[minIdx] = minDistance
        /\ \A j \in 0..(numDist - 1) : distances[j] >= minDistance
        /\ \A j \in 0..(minIdx - 1) : distances[j] > minDistance
        /\ \E j \in (0..(numDist - 1)) \ {minIdx} : distances[j] = min2Distance
        /\ \A j \in (0..(numDist - 1)) \ {minIdx} : distances[j] >= min2Distance
        /\ minDistance <= min2Distance

\* a scan whose minimum occurs twice and not at the first position
C8_Witness ==
    /\ pc = "scanned"
    /\ minIdx > 0
    /\ minDistance = min2Distance
    /\ Cardinality({j \in 0..(numDist - 1) : distances[j] = minDistance}) >= 2

(***************************************************************************)
(* Rendering one pixel: renderPixels, sphereTrace, shade, shadow and       *)
(* ObjectInBetween (Renderer.cpp), on the z axis of the scene.  The call   *)
(* stack is `stack' (the shade calls in progress); sphereTrace returns     *)
(* what its shade call returns, so it leaves no frame behind.              *)
(***************************************************************************)
MaxDepth == 3

MatteS == SphereA
MirrorB == [kind |-> "sphere", position |-> <<0, 0, 0>>, rotation |-> NoRot,
            reflection |-> 1, params |-> [radius |-> 4]]
MirrorC == [kind |-> "sphere", position |-> <<0, 0, 3>>, rotation |-> NoRot,
            reflection |-> 1, params |-> [radius |-> 4]]
MirrorP == [kind |-> "sphere", position |-> <<0, 0, 30>>, rotation |-> NoRot,
            reflection |-> 1, params |-> [radius |-> 2]]
MirrorQ == [kind |-> "sphere", position |-> <<0, 0, -30>>, rotation |-> NoRot,
            reflection |-> 1, params |-> [radius |-> 2]]
SideL == [kind |-> "sphere", position |-> <<40, 0, 0>>, rotation |-> NoRot,
          reflection |-> 0, params |-> [radius |-> 1]]
SideR == [kind |-> "sphere", position |-> <<-40, 0, 0>>, rotation |-> NoRot,
          reflection |-> 0, params |-> [radius |-> 1]]

\* object lists of the scene files rendered: none, one sphere, two
\* overlapping mirrors, and a full group of four spheres
TraceObjects == { <<>>, <<MatteS>>, <<MirrorB, MirrorC>>,
                  <<MirrorP, MirrorQ, SideL, SideR>> }

TraceFiles ==
    {[cameraPos |-> c, lightPos |-> l, objects |-> objs] :
        c \in {<<0, 0, 0>>, <<0, 0, 1>>, <<0, 0, -3>>},
        l \in {<<0, 0, -6>>, <<0, 0, 1>>},
        objs \in TraceObjects}

\* ray_direction of a pixel: (x, y, 1) normalised, for the pixel on the axis
PixelDirs == {normalize(<<0, 0, 1>>)}

\* arguments of a march of ObjectInBetween on its own
ProbePoints == {<<0, 0, 0>>, <<0, 0, 2>>, <<0, 0, -20>>}
ProbeDirs == {<<0, 0, 1>>, <<0, 0, -1>>}
ProbeDists == {10, 40}

\* d <= TRACE_THRESHOLD * t and d <= SHADOW_THRESHOLD * t: the thresholds
\* are 10e-12 and 10e-5, so for the distances of a march the product lies
\* strictly between 0 and one unit of the grid when t > 0
BelowThreshold(d, tt) == IF tt >= 0 THEN d <= 0 ELSE d < 0

\* what a call through a shape pointer reaches: the object, or, for an
\* indeterminate pointer, an invalid address (FAULT) or any object that
\* happens to live there
FAULT == [name |-> "fault", addr |-> -2]
Pointees(sc, ptr) ==
    IF ptr.name = "garbage"
    THEN {FAULT} \cup {sc.shapes[i] : i \in 1..Len(sc.shapes)}
    ELSE {ptr}

\* the process dies in function `fn'
Fault(fn) ==
    /\ crashed' = TRUE
    /\ pc' = "fault"
    /\ step' = [kind |-> "fault", fn |-> fn]
    /\ UNCHANGED <<rendererVars, nAdds, queryVars,
                   origin, dir, t, totalDistance, distance, maxDist, stack, steps>>

\* Renderer::getMinDistances(minDistance, min2Distance, closestShape, p) on
\* thread 0
getMinDistances(p) ==
    /\ distances' = EvalLoops(scene, numDist, distances, 0, p)
    /\ LET r == ScanAndMap(scene, thresh, numDist, distances', 0, closestShape)
       IN /\ minDistance' = r.minDist
          /\ min2Distance' = r.min2Dist
          /\ minIdx' = r.minIdx
          /\ closestShape' = r.closestShape

\* after Renderer::addScene on a scene file, either renderScene is about
\* to run or ObjectInBetween is entered with arguments of its own
InitTrace ==
    /\ \E file \in TraceFiles : \E r \in {addScene(file, 1)} :
             /\ scene = r.scene
             /\ numDist = r.numDist
             /\ numThreads = r.numThreads
             /\ distances = r.distances
             /\ thresh = r.thresh
    /\ nAdds = 0
    /\ crashed = FALSE
    /\ ray = <<0, 0, 0>>
    /\ minDistance = FTYPE_MAX
    /\ min2Distance = FTYPE_MAX
    /\ closestShape = NULL
    /\ minIdx = -1
    /\ t = 0
    /\ totalDistance = 0
    /\ distance = 0
    /\ stack = <<>>
    /\ step = NoStep
    /\ steps = 0
    /\ NoWorkers
    /\ NoExt
    /\ \/ /\ pc = "render"
          /\ origin = <<0, 0, 0>>
          /\ dir = <<0, 0, 0>>
          /\ maxDist = 0
       \/ /\ pc = "oib_entry"
          /\ origin \in ProbePoints
          /\ dir \in ProbeDirs
          /\ maxDist \in ProbeDists

\* Renderer::renderPixels: the scan at the camera, then sphereTrace is
\* called for the pixel
renderPixels ==
    /\ UNCHANGED extVars
    /\ pc = "render"
    /\ UNCHANGED workerVars
    /\ getMinDistances(scene.cameraPos)
    /\ ray' = scene.cameraPos
    /\ origin' = scene.cameraPos
    /\ dir' \in PixelDirs
    /\ distance' = 0
    /\ pc' = "trace_entry"
    /\ UNCHANGED <<scene, numDist, thresh, numThreads, nAdds, crashed,
                   t, totalDistance, maxDist, stack, step, steps>>

\* Renderer::sphereTrace up to its loop
sphereTrace_entry ==
    /\ UNCHANGED extVars
    /\ pc = "trace_entry"
    /\ UNCHANGED workerVars
    /\ ray' = origin
    /\ steps' = 0
    /\ step' = [kind |-> "entry", fn |-> "sphereTrace", hit |-> (minDistance <= 0)]
    /\ IF minDistance <= 0
       THEN /\ pc' = "shade"
            /\ UNCHANGED <<t, totalDistance>>
       ELSE /\ pc' = "trace_loop"
            /\ t' = minDistance
            /\ totalDistance' = minDistance
    /\ UNCHANGED <<rendererVars, nAdds, crashed, minDistance, min2Distance,
                   closestShape, minIdx, origin, dir, distance, maxDist, stack>>

\* a maximum-distance check that counts the current bounce only
Travelled_perBounce(dist, tt) == tt

\* the length the loop condition of sphereTrace compares with
\* MAX_DISTANCE: the distance handed in by the caller plus t
Travelled(dist, tt) == dist + tt

\* where a call returns to when sphereTrace or shade is left
ReturnTo(stk) == IF stk = <<>> THEN "done" ELSE "shade_shadow"

\* sphereTrace: the loop condition fails, black is returned
sphereTrace_escape ==
    /\ UNCHANGED extVars
    /\ pc = "trace_loop"
    /\ UNCHANGED workerVars
    /\ ~(Travelled(distance, t) < MAX_DISTANCE)
    /\ pc' = ReturnTo(stack)
    /\ step' = [kind |-> "escape", fn |-> "sphereTrace", sum |-> distance + t]
    /\ UNCHANGED <<rendererVars, nAdds, crashed, queryVars,
                   origin, dir, t, totalDistance, distance, maxDist, stack, steps>>

\* sphereTrace: one iteration of the loop
sphereTrace_step ==
    /\ UNCHANGED extVars
    /\ pc = "trace_loop"
    /\ UNCHANGED workerVars
    /\ Travelled(distance, t) < MAX_DISTANCE
    /\ \E tgt \in Pointees(scene, closestShape) :
          IF tgt = FAULT THEN Fault("sphereTrace")
          ELSE /\ ray' = VAdd(origin, VScale(dir, t))
               /\ steps' = steps + 1
               /\ \E total \in {totalDistance + distanceFunction(tgt, ray')} :
                  /\ IF min2Distance < total
                     THEN /\ getMinDistances(ray')
                          /\ totalDistance' = minDistance'
                     ELSE /\ minDistance' = total - totalDistance
                          /\ closestShape' = tgt
                          /\ totalDistance' = total
                          /\ UNCHANGED <<min2Distance, minIdx, distances>>
                  /\ IF BelowThreshold(minDistance', t)
                     THEN /\ pc' = "shade"
                          /\ distance' = distance + t
                          /\ t' = t
                     ELSE /\ pc' = "trace_loop"
                          /\ t' = t + minDistance'
                          /\ UNCHANGED distance
                  /\ step' = [kind |-> "step", fn |-> "sphereTrace",
                              rescan |-> (min2Distance < total),
                              total |-> total, min2 |-> min2Distance,
                              hit |-> BelowThreshold(minDistance', t),
                              tBefore |-> t]
                  /\ UNCHANGED <<scene, numDist, thresh, numThreads, nAdds,
                                 crashed, origin, dir, maxDist, stack>>

\* 2.0 * std::exp(x + 1.0) for the values a dot product of axis vectors takes
TwoExp(x) == CASE x = -1 -> 2 [] x = 0 -> 5 [] x = 1 -> 14

\* a buffer entry that is not a number
NAN == "nan"

\* shade: the differences of the distance function along the three axes,
\* from which the normal is made
Gradient(shp, p) ==
    LET dx == <<NORMAL_DELTA, 0, 0>>
        dy == <<0, NORMAL_DELTA, 0>>
        dz == <<0, 0, NORMAL_DELTA>>
    IN << distanceFunction(shp, VAdd(p, dx)) - distanceFunction(shp, VSub(p, dx)),
          distanceFunction(shp, VAdd(p, dy)) - distanceFunction(shp, VSub(p, dy)),
          distanceFunction(shp, VAdd(p, dz)) - distanceFunction(shp, VSub(p, dz)) >>

\* Renderer::shade up to the return of its reflection ray.  The colours it
\* computes decide no branch and are left out.  A zero gradient makes the
\* normal, refldir and start_ray not-a-number: every sphere lane then
\* stores not-a-number, the scan keeps DBL_MAX and minIdx -1, and
\* sphereTrace is entered with that.
shade ==
    /\ UNCHANGED extVars
    /\ pc = "shade"
    /\ UNCHANGED workerVars
    /\ Len(stack) < MaxDepth
    /\ \E tgt \in Pointees(scene, closestShape) :
          IF tgt = FAULT THEN Fault("shade")
          ELSE \E grad \in {Gradient(tgt, ray)} :
                  /\ stack' = Append(stack, [ray |-> ray, distance |-> distance])
                  /\ step' = NoStep
                  /\ IF tgt.reflection > 0
                     THEN IF length(grad) = 0
                          THEN /\ distances' = [i \in DOMAIN distances |->
                                                 IF i < NumWritten(scene) THEN NAN
                                                 ELSE distances[i]]
                               /\ minDistance' = FTYPE_MAX
                               /\ min2Distance' = FTYPE_MAX
                               /\ minIdx' = -1
                               /\ closestShape' = MapIndex(scene, thresh, -1, closestShape)
                               /\ origin' = NaNVec
                               /\ dir' = NaNVec
                               /\ ray' = NaNVec
                               /\ pc' = "trace_entry"
                          ELSE \E normal \in {normalize(grad)} :
                                  /\ dir' = normalize(VAdd(dir,
                                                VScale(normal, TwoExp(VDot(dir, normal)))))
                                  /\ ray' = VAdd(ray, VScale(normal, REFLECTION_BIAS))
                                  /\ origin' = ray'
                                  /\ getMinDistances(ray')
                                  /\ pc' = "trace_entry"
                     ELSE /\ pc' = "shade_shadow"
                          /\ closestShape' = tgt
                          /\ UNCHANGED <<distances, ray, minDistance, min2Distance,
                                         minIdx, origin, dir>>
                  /\ UNCHANGED <<scene, numDist, thresh, numThreads, nAdds, crashed,
                                 t, totalDistance, distance, maxDist, steps>>

\* shade calls shadow(ray, L_norm, light_len), which calls ObjectInBetween
\* once: SHADOW_CIRCLES is 0.0, so no further ray is cast
shadow ==
    /\ UNCHANGED extVars
    /\ pc = "shade_shadow"
    /\ UNCHANGED workerVars
    /\ LET L == VSub(scene.lightPos, stack[Len(stack)].ray)
       IN /\ origin' = stack[Len(stack)].ray
          /\ dir' = normalize(L)
          /\ maxDist' = length(L)
    /\ pc' = "oib_entry"
    /\ step' = NoStep
    /\ UNCHANGED <<rendererVars, nAdds, crashed, queryVars,
                   t, totalDistance, distance, stack, steps>>

\* Renderer::ObjectInBetween up to its loop
ObjectInBetween_entry ==
    /\ UNCHANGED extVars
    /\ pc = "oib_entry"
    /\ UNCHANGED workerVars
    /\ getMinDistances(origin)
    /\ ray' = origin
    /\ steps' = 0
    /\ step' = [kind |-> "entry", fn |-> "ObjectInBetween", hit |-> (minDistance' <= 0)]
    /\ IF minDistance' <= 0
       THEN /\ pc' = "shade_return"
            /\ UNCHANGED <<t, totalDistance>>
       ELSE /\ pc' = "oib_loop"
            /\ t' = minDistance'
            /\ totalDistance' = minDistance'
    /\ UNCHANGED <<scene, numDist, thresh, numThreads, nAdds, crashed,
                   origin, dir, distance, maxDist, stack>>

\* ObjectInBetween: the loop condition fails, false is returned
ObjectInBetween_escape ==
    /\ UNCHANGED extVars
    /\ pc = "oib_loop"
    /\ UNCHANGED workerVars
    /\ ~(t < maxDist)
    /\ pc' = "shade_return"
    /\ step' = [kind |-> "escape", fn |-> "ObjectInBetween", sum |-> t]
    /\ UNCHANGED <<rendererVars, nAdds, crashed, queryVars,
                   origin, dir, t, totalDistance, distance, maxDist, stack, steps>>

\* ObjectInBetween: one iteration of the loop
ObjectInBetween_step ==
    /\ UNCHANGED extVars
    /\ pc = "oib_loop"
    /\ UNCHANGED workerVars
    /\ t < maxDist
    /\ \E tgt \in Pointees(scene, closestShape) :
          IF tgt = FAULT THEN Fault("ObjectInBetween")
          ELSE /\ ray' = VAdd(origin, VScale(dir, t))
               /\ steps' = steps + 1
               /\ \E total \in {totalDistance + distanceFunction(tgt, ray')} :
                  /\ IF min2Distance < total
                     THEN /\ getMinDistances(ray')
                          /\ totalDistance' = minDistance'
                     ELSE /\ minDistance' = total - totalDistance
                          /\ closestShape' = tgt
                          /\ totalDistance' = total
                          /\ UNCHANGED <<min2Distance, minIdx, distances>>
                  /\ IF BelowThreshold(minDistance', t)
                     THEN /\ pc' = "shade_return"
                          /\ t' = t
                     ELSE /\ pc' = "oib_loop"
                          /\ t' = t + minDistance'
                  /\ step' = [kind |-> "step", fn |-> "ObjectInBetween",
                              rescan |-> (min2Distance < total),
                              total |-> total, min2 |-> min2Distance,
                              hit |-> BelowThreshold(minDistance', t),
                              tBefore |-> t]
                  /\ UNCHANGED <<scene, numDist, thresh, numThreads, nAdds,
                                 crashed, origin, dir, distance, maxDist, stack>>

\* shade returns its colour to the sphereTrace that called it, which
\* returns it to its caller: the shade call below it, or renderPixels
shade_return ==
    /\ UNCHANGED extVars
    /\ pc = "shade_return"
    /\ UNCHANGED workerVars
    /\ IF stack = <<>>
       THEN /\ pc' = "done"
            /\ UNCHANGED stack
       ELSE /\ stack' = SubSeq(stack, 1, Len(stack) - 1)
            /\ pc' = ReturnTo(SubSeq(stack, 1, Len(stack) - 1))
    /\ step' = NoStep
    /\ UNCHANGED <<rendererVars, nAdds, crashed, queryVars,
                   origin, dir, t, totalDistance, distance, maxDist, steps>>

NextTrace ==
    \/ renderPixels
    \/ sphereTrace_entry
    \/ sphereTrace_step
    \/ sphereTrace_escape
    \/ shade
    \/ shadow
    \/ ObjectInBetween_entry
    \/ ObjectInBetween_step
    \/ ObjectInBetween_escape
    \/ shade_return

SpecTrace == InitTrace /\ [][NextTrace]_vars

\* the march in progress, or just ended, is one of `fns'
StepOf(fns) == step.kind \in {"entry", "step", "escape", "fault"} /\ step.fn \in fns

\* C3: every run of a marching loop (sphereTrace, ObjectInBetween) ends in
\* a hit or an escape and in nothing else, after at most MAX_DISTANCE
\* iterations on the unit grid, and every iteration that does not end the
\* march increases t by a strictly positive amount.
C3_MarchEnds ==
    /\ ~(step.kind = "fault" /\ StepOf({"sphereTrace", "ObjectInBetween"}))
    /\ steps <= MAX_DISTANCE
    /\ (step.kind = "step" /\ ~step.hit) => t > step.tBefore

\* C4: along every chain of nested shade calls the accumulated distance
\* handed to the next bounce is strictly larger than the one before, also
\* when the reflected ray starts at a point of minimum distance <= 0.
C4_DistanceIncreases ==
    \A i \in 1..(Len(stack) - 1) : stack[i + 1].distance > stack[i].distance

\* the least distance from point p to the shapes of list `shapes' other
\* than the one at position `skip' (0: none is skipped)
NearestOf(shapes, p, skip) ==
    LET ds == {distanceFunction(shapes[i], p) : i \in (1..Len(shapes)) \ {skip}}
    IN CHOOSE m \in ds : \A x \in ds : m <= x

\* C6: an iteration of a marching loop rescans exactly when the running
\* total exceeds the cached second-nearest distance, and directly after a
\* rescan the nearest shape, its distance and the second-nearest distance
\* are those of the scene at the current ray position and the running
\* total equals the new minimum distance.
C6_RescanRule ==
    step.kind = "step" =>
        /\ step.rescan <=> (step.total > step.min2)
        /\ step.rescan =>
              /\ totalDistance = minDistance
              /\ \E i \in 1..Len(scene.shapes) :
                    /\ scene.shapes[i] = closestShape
                    /\ minDistance = distanceFunction(closestShape, ray)
                    /\ minDistance = NearestOf(scene.shapes, ray, 0)
                    /\ Len(scene.shapes) >= 2
                          => min2Distance = NearestOf(scene.shapes, ray, i)

\* C9: sphereTrace raises no error and has two outcomes: an iteration
\* reports a hit (calls shade) exactly when the minimum distance in force
\* is <= TRACE_THRESHOLD * t, and black is returned, without shading,
\* exactly when distance + t has reached MAX_DISTANCE.
C9_TwoOutcomes ==
    StepOf({"sphereTrace"}) =>
        /\ step.kind # "fault"
        /\ step.kind = "step" =>
              /\ step.hit <=> BelowThreshold(minDistance, step.tBefore)
              /\ step.hit <=> (pc = "shade")
        /\ step.kind = "escape" =>
              /\ step.sum >= MAX_DISTANCE
              /\ pc \in {"done", "shade_shadow"}

\* C25: shade is only invoked with an accumulated distance strictly below
\* MAX_DISTANCE, for the primary ray and for every reflection bounce: the
\* maximum-distance check counts the distance since the origin of the
\* primary ray.
C25_ShadeBelowMaxDistance ==
    /\ pc = "shade" => distance < MAX_DISTANCE
    /\ \A i \in 1..Len(stack) : stack[i].distance < MAX_DISTANCE

\* shade is invoked for a hit of a reflection ray whose march has added
\* to the distance of the bounce before it
C25_Witness ==
    /\ pc = "shade"
    /\ Len(stack) >= 1
    /\ stack[Len(stack)].distance > 0
    /\ distance > stack[Len(stack)].distance

\* some shape of the scene is reached on the ray from `from' in direction
\* `d' strictly after its origin and before the distance `max'
ShapeBetween(sc, from, d, max) ==
    \E i \in 1..Len(sc.shapes) : \E s \in 1..(max - 1) :
        distanceFunction(sc.shapes[i], VAdd(from, VScale(d, s))) <= 0

\* ObjectInBetween has just returned true
ReturnsOccluded ==
    /\ StepOf({"ObjectInBetween"})
    /\ step.kind \in {"entry", "step"}
    /\ step.hit

\* C26: ObjectInBetween returns true only if some shape is reached on the
\* shadow ray strictly after its origin and before max_dist; a shadow ray
\* that starts at a hit point of minimum distance <= 0 with no shape
\* between that point and the light is reported as not occluded.
C26_OccludedOnlyBetween ==
    ReturnsOccluded => ShapeBetween(scene, origin, dir, maxDist)

\* a scene without shapes is traced without a call through a shape
\* pointer: the loop of sphereTrace is not entered and the ray of the pixel
\* comes back black
EmptySceneBlack ==
    Len(scene.shapes) = 0 =>
        /\ ~crashed
        /\ pc \notin {"shade", "fault"}
        /\ pc = "trace_loop" => ~(Travelled(distance, t) < MAX_DISTANCE)
        /\ (pc = "done" /\ step.kind # "none") =>
               (step.kind = "escape" /\ step.fn = "sphereTrace")

\* C30: for a scene with no shapes, getMinDistances reads no per-kind shape
\* list at an invalid index (no access at index -1), no shape pointer is
\* dereferenced, and every pixel is rendered as background black.
C30_EmptySceneNoInvalidRead ==
    Len(scene.shapes) = 0 =>
        /\ closestShape # GARBAGE
        /\ ~crashed
        /\ pc \notin {"shade", "fault"}
        /\ pc = "trace_loop" => ~(Travelled(distance, t) < MAX_DISTANCE)
        /\ (pc = "done" /\ step.kind # "none") =>
               (step.kind = "escape" /\ step.fn = "sphereTrace")

\* a sphere on the axis between the camera and the far mirror
NearS == [kind |-> "sphere", position |-> <<0, 0, 20>>, rotation |-> NoRot,
          reflection |-> 0, params |-> [radius |-> 1]]

\* the Scene after the client's scene->addShape(new Sphere(json)) when the
\* read of shape->type yields SPHERE
addShape_sphere(sc, json) ==
    LET shape == NewShape(json, 100)
    IN [sc EXCEPT !.shapes = Append(@, shape), !.numShapes = @ + 1,
                  !.wSphere = addSphere(@, shape)]

\* as InitTrace, after the client has added a sphere to the public scene
\* of the Renderer between addScene and renderScene
InitTraceAdded ==
    /\ \E file \in TraceFiles : \E r \in {addScene(file, 1)} :
             /\ scene = addShape_sphere(r.scene, NearS)
             /\ numDist = r.numDist
             /\ numThreads = r.numThreads
             /\ distances = r.distances
             /\ thresh = r.thresh
    /\ nAdds = 1
    /\ crashed = FALSE
    /\ ray = <<0, 0, 0>>
    /\ minDistance = FTYPE_MAX
    /\ min2Distance = FTYPE_MAX
    /\ closestShape = NULL
    /\ minIdx = -1
    /\ t = 0
    /\ totalDistance = 0
    /\ distance = 0
    /\ stack = <<>>
    /\ step = NoStep
    /\ steps = 0
    /\ NoWorkers
    /\ NoExt
    /\ \/ /\ pc = "render"
          /\ origin = <<0, 0, 0>>
          /\ dir = <<0, 0, 0>>
          /\ maxDist = 0
       \/ /\ pc = "oib_entry"
          /\ origin \in ProbePoints
          /\ dir \in ProbeDirs
          /\ maxDist \in ProbeDists

SpecTraceAdded == InitTraceAdded /\ [][NextTrace]_vars

\* C21: at every marching step at which no rescan is triggered, the
\* distance of the cached nearest shape, which is used for the hit test
\* and as the step, equals the minimum over all shapes of the scene at the
\* current ray position (the value a march that rescans every shape at
\* every step would use); the distance functions of the scenes rendered
\* change by at most the distance moved and the directions have length 1.
C21_CachedIsMinimum ==
    (step.kind = "step" /\ ~step.rescan) =>
        /\ \E i \in 1..Len(scene.shapes) : scene.shapes[i] = closestShape
        /\ minDistance = distanceFunction(closestShape, ray)
        /\ minDistance = NearestOf(scene.shapes, ray, 0)

(***************************************************************************)
(* The parallel region of renderPixels: the team has numThreads workers,   *)
(* worker k being the thread omp_get_thread_num() = k.  Of a worker's      *)
(* pixels only its getMinDistances calls are kept, each made of one step   *)
(* per vectDistFunc call and one step for the scan.  The client may have   *)
(* extended the public scene with Scene::addShape before rendering.        *)
(***************************************************************************)
ParFiles ==
    {[cameraPos |-> <<0, 0, 0>>, lightPos |-> <<0, 0, 0>>, objects |-> objs] :
        objs \in {<<SphereA>>, <<BoxA, SphereA>>}}

ParRays == {<<0, 0, 0>>, <<0, 0, 4>>}

NoResult == [minIdx |-> -2]

InitPar ==
    /\ \E file \in ParFiles, nt \in 1..MaxThreads : \E r \in {addScene(file, nt)} :
          /\ scene = r.scene
          /\ numDist = r.numDist
          /\ numThreads = r.numThreads
          /\ distances = r.distances
          /\ thresh = r.thresh
    /\ nAdds = 0
    /\ crashed = FALSE
    /\ ray = <<0, 0, 0>>
    /\ minDistance = FTYPE_MAX
    /\ min2Distance = FTYPE_MAX
    /\ closestShape = NULL
    /\ minIdx = -1
    /\ pc = "idle"
    /\ NoTrace
    /\ NoWorkers
    /\ NoExt

\* renderPixels up to the parallel region: the scan at the camera on the
\* calling thread, then the team starts
StartRender ==
    /\ UNCHANGED extVars
    /\ pc \in {"idle", "added"}
    /\ ~crashed
    /\ pc' = "parallel"
    /\ ray' = scene.cameraPos
    /\ getMinDistances(scene.cameraPos)
    /\ crashed' \in (IF Overflows(scene, numDist, distances, 0)
                     THEN {FALSE, TRUE} ELSE {FALSE})
    /\ wpc' = [k \in 0..(numThreads - 1) |-> "idle"]
    /\ wray' = [k \in 0..(numThreads - 1) |-> <<0, 0, 0>>]
    /\ wgrp' = [k \in 0..(numThreads - 1) |-> 0]
    /\ wres' = [k \in 0..(numThreads - 1) |-> NoResult]
    /\ touched' = {}
    /\ UNCHANGED <<scene, numDist, thresh, numThreads, nAdds, traceVars>>

\* worker k enters getMinDistances(.., p)
Worker_call(k, p) ==
    /\ UNCHANGED extVars
    /\ pc = "parallel"
    /\ ~crashed
    /\ k \in DOMAIN wpc
    /\ wpc[k] = "idle"
    /\ wpc' = [wpc EXCEPT ![k] = "loops"]
    /\ wray' = [wray EXCEPT ![k] = p]
    /\ wgrp' = [wgrp EXCEPT ![k] = 0]
    /\ UNCHANGED <<rendererVars, nAdds, crashed, queryVars, pc, traceVars,
                   wres, touched>>

\* worker k: one vectDistFunc call of the six loops, which stores four
\* entries at destPtr = distances + numDist * k + 4 * (groups stored)
Worker_loop(k) ==
    /\ UNCHANGED extVars
    /\ pc = "parallel"
    /\ ~crashed
    /\ k \in DOMAIN wpc
    /\ wpc[k] = "loops"
    /\ 4 * wgrp[k] < NumWritten(scene)
    /\ \E base \in {numDist * k} : \E first \in {base + 4 * wgrp[k]} :
          /\ distances' = [i \in DOMAIN distances |->
                               IF first <= i /\ i < first + 4
                               THEN Evaluate(scene, wray[k])[i - base]
                               ELSE distances[i]]
          /\ touched' = touched \cup {<<k, i>> : i \in first..(first + 3)}
          /\ crashed' \in (IF first + 3 >= Cardinality(DOMAIN distances)
                           THEN {FALSE, TRUE} ELSE {FALSE})
    /\ wgrp' = [wgrp EXCEPT ![k] = @ + 1]
    /\ UNCHANGED <<scene, numDist, thresh, numThreads, nAdds, queryVars, pc,
                   traceVars, wpc, wray, wres>>

\* worker k: the scan of dists[0..numDist-1] and the mapping of minIdx
Worker_scan(k) ==
    /\ UNCHANGED extVars
    /\ pc = "parallel"
    /\ ~crashed
    /\ k \in DOMAIN wpc
    /\ wpc[k] = "loops"
    /\ 4 * wgrp[k] >= NumWritten(scene)
    /\ \E r \in {ScanAndMap(scene, thresh, numDist, distances, k, NULL)} :
          wres' = [wres EXCEPT ![k] = [minIdx |-> r.minIdx, minDist |-> r.minDist,
                                      min2Dist |-> r.min2Dist,
                                      closestShape |-> r.closestShape.addr]]
    /\ touched' = touched \cup {<<k, numDist * k + i>> : i \in 0..(numDist - 1)}
    /\ wpc' = [wpc EXCEPT ![k] = "idle"]
    /\ UNCHANGED <<rendererVars, nAdds, crashed, queryVars, pc, traceVars,
                   wray, wgrp>>

NextPar ==
    \/ \E json \in AddCatalogue, type \in ShapeTypes : AddShape(json, type)
    \/ StartRender
    \/ \E k \in 0..(MaxThreads - 1), p \in ParRays : Worker_call(k, p)
    \/ \E k \in 0..(MaxThreads - 1) : Worker_loop(k)
    \/ \E k \in 0..(MaxThreads - 1) : Worker_scan(k)

SpecPar == InitPar /\ [][NextPar]_vars

\* the indices worker k may use: [k * numDist, (k + 1) * numDist)
RangeOf(k) == (k * numDist)..((k + 1) * numDist - 1)

\* C5: in the parallel region every buffer index a worker's
\* getMinDistances call writes or scans lies in that worker's own range
\* [k*numDist, (k+1)*numDist), so no index is used by two workers; a
\* completed call has used the whole range; and every range lies inside
\* the buffer of numDist * numThreads entries allocated by addScene.
C5_WorkerRanges ==
    pc = "parallel" =>
        /\ \A e \in touched : e[2] \in RangeOf(e[1])
        /\ \A e1 \in touched : \A e2 \in touched : e1[2] = e2[2] => e1[1] = e2[1]
        /\ \A k \in DOMAIN wpc :
              /\ wres[k] # NoResult => \A i \in RangeOf(k) : <<k, i>> \in touched
              /\ RangeOf(k) \subseteq DOMAIN distances
        /\ Cardinality(DOMAIN distances) = numDist * numThreads

(***************************************************************************)
(* The scene operations on their own: construction and Scene::addShape.    *)
(***************************************************************************)
NextScene ==
    \/ \E file \in SceneFiles, nt \in 1..MaxThreads : AddScene(file, nt)
    \/ \E json \in AddCatalogue, type \in ShapeTypes : AddShape(json, type)

SpecScene == Init /\ [][NextScene]_vars

(***************************************************************************)
(* Scene::Scene and Scene::~Scene step by step, with the failures of the   *)
(* scene file and the heap objects the Scene allocates (Scene.cpp).        *)
(* A file is readable or not; its text parses as JSON or not; the parsed   *)
(* document has a root, a camera, a light and a sequence of entries.  An   *)
(* entry is a shape description with at most one defect:                   *)
(*   not_object      the entry is no JSON object (value() throws)          *)
(*   bad_reflection  a member read in Shape::Shape has the wrong type      *)
(*   bad_params      a member read in the subclass has the wrong type      *)
(*   no_position     the member "position" is missing                      *)
(***************************************************************************)
MaxFileObjects == 2

SceneAddr == 1000
WrapperAddrs == 1001..1006
AddedAddr == 100

Defects == {"none", "not_object", "bad_reflection", "bad_params", "no_position"}

BuildObjects ==
    {[desc |-> SphereA, defect |-> "none"],
     [desc |-> BoxA, defect |-> "none"],
     [desc |-> Teapot, defect |-> "none"],
     [desc |-> Teapot, defect |-> "no_position"],
     [desc |-> SphereA, defect |-> "not_object"],
     [desc |-> SphereA, defect |-> "bad_reflection"],
     [desc |-> BoxA, defect |-> "bad_params"],
     [desc |-> SphereA, defect |-> "no_position"]}

GoodFile(objs) ==
    [readable |-> TRUE, text |-> "json", root |-> "object", camera |-> "object",
     pointlight |-> "object", cameraPos |-> <<0, 0, 0>>, lightPos |-> <<0, 0, 0>>,
     objects |-> objs]

BuildFiles ==
    {GoodFile(objs) : objs \in SeqsUpTo(BuildObjects, MaxFileObjects)}
    \cup {[GoodFile(<<>>) EXCEPT !.readable = FALSE],
          [GoodFile(<<>>) EXCEPT !.text = "garbled"],
          [GoodFile(<<>>) EXCEPT !.root = "array"],
          [GoodFile(<<>>) EXCEPT !.camera = "missing"],
          [GoodFile(<<>>) EXCEPT !.pointlight = "missing"]}

\* the Scene object when the six wrappers have been created
EmptyScene(file) ==
    [ wBox |-> BoxWrapper, wCone |-> ConeWrapper, wOcta |-> OctaWrapper,
      wPlane |-> PlaneWrapper, wSphere |-> SphereWrapper, wTorus |-> TorusWrapper,
      cameraPos |-> file.cameraPos, lightPos |-> file.lightPos,
      numShapes |-> 0, shapes |-> <<>> ]

\* the variables of the Renderer and of its marches, which a Scene
\* constructed on its own does not touch
clientVars ==
    <<scene, numDist, thresh, distances, numThreads, nAdds, crashed, queryVars,
      pc, traceVars, workerVars, probe, lighting, image, auxVars>>

\* `new Scene(path)': the object is allocated and the constructor creates
\* the six wrappers
Scene_begin(file) ==
    /\ ctor.pc = "none"
    /\ ctor' = [pc |-> "open", file |-> file, sc |-> EmptyScene(file), next |-> 1]
    /\ live' = {SceneAddr} \cup WrapperAddrs
    /\ frees' = [a \in ({SceneAddr} \cup WrapperAddrs \cup 1..MaxFileObjects
                        \cup {AddedAddr}) |-> 0]
    /\ UNCHANGED <<thrown, handle, clientVars>>

\* an exception leaves the constructor: the members of the Scene are
\* destroyed (the wrappers and shapes are held by raw pointers), the
\* new-expression releases the object, as it has released the shape of
\* `released' whose constructor threw, and the caller receives no pointer
Throw(e, released) ==
    /\ thrown' = e
    /\ ctor' = [ctor EXCEPT !.pc = "thrown"]
    /\ live' = live \ {SceneAddr}
    /\ frees' = [a \in DOMAIN frees |->
                    IF a \in released \cup {SceneAddr} THEN frees[a] + 1 ELSE frees[a]]
    /\ UNCHANGED <<handle, clientVars>>

\* the process ends inside the constructor
Dies(how) ==
    /\ thrown' = how
    /\ ctor' = [ctor EXCEPT !.pc = "dead"]
    /\ UNCHANGED <<live, frees, handle, clientVars>>

\* the constructor goes on at `to'
Goes(to) ==
    /\ ctor' = [ctor EXCEPT !.pc = to]
    /\ UNCHANGED <<thrown, live, frees, handle, clientVars>>

\* std::ifstream jsonFile(path); if (jsonFile.fail()) throw ...
Scene_open ==
    /\ ctor.pc = "open"
    /\ IF ~ctor.file.readable THEN Throw("SceneFileNotFound", {}) ELSE Goes("parse")

\* jsonFile >> this->sceneDescription, before the try block: a text that
\* is no JSON document makes the parser throw json::parse_error
Scene_parse ==
    /\ ctor.pc = "parse"
    /\ IF ctor.file.text # "json" THEN Throw("json::parse_error", {}) ELSE Goes("header")

\* camera and pointlight, inside the try block: operator[] on a root that
\* is no object, and value() on a member that is missing (null), throw
\* json::type_error, which the catch clause turns into JsonSyntaxError
Scene_header ==
    /\ ctor.pc = "header"
    /\ IF \/ ctor.file.root # "object"
          \/ ctor.file.camera # "object"
          \/ ctor.file.pointlight # "object"
       THEN Throw("JsonSyntaxError", {})
       ELSE Goes("objects")

\* the entry the loop over the objects stands at
Entry == ctor.file.objects[ctor.next]

\* one iteration of the loop over the objects.  shp is a const reference:
\* shp.value("kind", ..) throws json::type_error when shp is no object,
\* which the catch clause of Scene::Scene turns into JsonSyntaxError; an
\* unsupported kind is skipped before any constructor runs; in the
\* constructors a member of the wrong type throws json::type_error inside
\* their try blocks, and params["position"] on a const json without that
\* member is undefined (an assertion of the library, or a read past the
\* members of the object).
Scene_object ==
    /\ ctor.pc = "objects"
    /\ ctor.next <= Len(ctor.file.objects)
    /\ \E e \in {Entry} : \E addr \in {ctor.next} :
          IF e.defect = "not_object"
          THEN Throw("JsonSyntaxError", {})
          ELSE IF getShapeType(e.desc.kind) = "UNKNOWN" \/ e.defect = "none"
          THEN /\ ctor' = [ctor EXCEPT !.sc = LoadObject(@, e.desc, addr),
                                       !.next = @ + 1]
               /\ live' = IF getShapeType(e.desc.kind) = "UNKNOWN"
                          THEN live ELSE live \cup {addr}
               /\ UNCHANGED <<thrown, frees, handle, clientVars>>
          ELSE IF e.defect \in {"bad_reflection", "bad_params"}
          THEN Throw("JsonSyntaxError", {addr})
          ELSE \/ Dies("abort")
               \/ Dies("fault")
               \/ Throw("JsonSyntaxError", {addr})

\* the constructor returns and the caller holds the pointer
Scene_return ==
    /\ ctor.pc = "objects"
    /\ ctor.next > Len(ctor.file.objects)
    /\ ctor' = [ctor EXCEPT !.pc = "built"]
    /\ handle' = [name |-> "scene", addr |-> SceneAddr]
    /\ UNCHANGED <<thrown, live, frees, clientVars>>

\* Scene::addShape(shape) on the constructed Scene, with a shape the
\* caller has allocated; `type' is what the read of shape->type yields
Scene_addShape(json, type) ==
    /\ ctor.pc = "built"
    /\ AddedAddr \notin live
    /\ frees[AddedAddr] = 0
    /\ LET shape == NewShape(json, AddedAddr)
           pushed == [ctor.sc EXCEPT !.shapes = Append(@, shape), !.numShapes = @ + 1]
       IN IF type = "UNKNOWN"
          THEN /\ ctor' = [ctor EXCEPT !.sc = [pushed EXCEPT
                                !.numShapes = @ - 1,
                                !.shapes = SubSeq(@, 1, Len(@) - 1)]]
               /\ frees' = [frees EXCEPT ![AddedAddr] = @ + 1]
               /\ UNCHANGED <<thrown, live>>
          ELSE IF type # getShapeType(shape.name)
          THEN /\ ctor' = [ctor EXCEPT !.pc = "crashed", !.sc = pushed]
               /\ thrown' = "fault"
               /\ live' = live \cup {AddedAddr}
               /\ UNCHANGED frees
          ELSE /\ ctor' = [ctor EXCEPT !.sc = LoadObject(@, json, AddedAddr)]
               /\ live' = live \cup {AddedAddr}
               /\ UNCHANGED <<thrown, frees>>
    /\ UNCHANGED <<handle, clientVars>>

\* `delete scene': ~Scene deletes shapes[0 .. numShapes-1] and the six
\* wrappers, then the object is released
Scene_delete ==
    /\ ctor.pc = "built"
    /\ LET gone == {ctor.sc.shapes[i].addr : i \in 1..ctor.sc.numShapes}
                   \cup WrapperAddrs \cup {SceneAddr}
       IN /\ live' = live \ gone
          /\ frees' = [a \in DOMAIN frees |->
                          IF a \in gone THEN frees[a] + 1 ELSE frees[a]]
    /\ ctor' = [ctor EXCEPT !.pc = "destroyed"]
    /\ UNCHANGED <<thrown, handle, clientVars>>

NextBuild ==
    \/ \E file \in BuildFiles : Scene_begin(file)
    \/ Scene_open
    \/ Scene_parse
    \/ Scene_header
    \/ Scene_object
    \/ Scene_return
    \/ \E json \in AddCatalogue : \E type \in ShapeTypes : Scene_addShape(json, type)
    \/ Scene_delete

SpecBuild == Init /\ [][NextBuild]_vars

\* C11: every failure of scene construction reaches the caller as a
\* SphereException: SceneFileNotFound when the file cannot be opened,
\* JsonSyntaxError for every malformed description and every failed
\* member access; nothing else leaves the constructor and the process
\* does not end in it.
C11_OnlySphereExceptions ==
    /\ ctor.pc \in {"thrown", "dead"} =>
          /\ ctor.pc = "thrown"
          /\ thrown \in {"SceneFileNotFound", "JsonSyntaxError"}
          /\ thrown = "SceneFileNotFound" <=> ~ctor.file.readable
    /\ ctor.pc = "built" =>
          /\ ctor.file.readable
          /\ ctor.file.text = "json"
          /\ \A i \in 1..Len(ctor.file.objects) :
                \/ ctor.file.objects[i].defect = "none"
                \/ /\ getShapeType(ctor.file.objects[i].desc.kind) = "UNKNOWN"
                   /\ ctor.file.objects[i].defect # "not_object"

\* C18: every Shape and wrapper allocated by scene construction or handed
\* to Scene::addShape is freed exactly once: when the Scene is destroyed,
\* when addShape rejects the shape, or when construction fails part-way;
\* and after a failed construction the caller holds no Scene.
C18_OwnedAllOrNothing ==
    /\ \A a \in DOMAIN frees : frees[a] <= 1
    /\ ctor.pc \in {"thrown", "destroyed"} =>
          /\ live = {}
          /\ \A a \in WrapperAddrs : frees[a] = 1
    /\ ctor.pc = "thrown" => handle = NULL

\* the entries of a scene description whose kind is supported
KnownEntries(objs) ==
    {i \in 1..Len(objs) : getShapeType(objs[i].desc.kind) # "UNKNOWN"}

\* the loop stands at an entry that is an object of unsupported kind
AtUnknownKind ==
    /\ ctor.pc = "objects"
    /\ ctor.next <= Len(ctor.file.objects)
    /\ Entry.defect # "not_object"
    /\ getShapeType(Entry.desc.kind) = "UNKNOWN"

\* C19: an object whose kind is not one of the six supported kinds is
\* skipped without error: the iteration adds no shape to the shape list,
\* changes no wrapper, leaves the shape count unchanged and throws
\* nothing, and the objects that follow it are still loaded.
C19_UnknownKindSkipped ==
    /\ [][AtUnknownKind =>
             /\ ctor'.sc = ctor.sc
             /\ ctor'.pc = "objects"
             /\ ctor'.next = ctor.next + 1
             /\ thrown' = thrown
             /\ live' = live]_vars
    /\ [](ctor.pc \in {"objects", "built"} =>
             LET loaded == KnownEntries(ctor.file.objects) \cap 1..(ctor.next - 1)
                 listed == {ctor.sc.shapes[i].addr : i \in 1..Len(ctor.sc.shapes)}
             IN /\ listed \ {AddedAddr} = loaded
                /\ ctor.sc.numShapes = Len(ctor.sc.shapes)
                /\ Cardinality(loaded) = Cardinality({i \in 1..Len(ctor.sc.shapes) :
                                             ctor.sc.shapes[i].addr # AddedAddr}))

\* a Scene is built from a description in which a supported object
\* follows an unsupported one, and the supported one is in the list
C19_Witness ==
    /\ ctor.pc = "built"
    /\ \E i, j \in 1..Len(ctor.file.objects) :
          /\ i < j
          /\ getShapeType(ctor.file.objects[i].desc.kind) = "UNKNOWN"
          /\ \E n \in 1..Len(ctor.sc.shapes) : ctor.sc.shapes[n].addr = j

(***************************************************************************)
(* The squared distance functions (virtual Shape::distanceFunctionSquared) *)
(* and a specification that applies both variants to every shape of a      *)
(* catalogue at the grid points around it.                                 *)
(***************************************************************************)
Plane_distanceFunctionSquared(shp, pointPos) ==
    LET ret_val == VDot(TrPoint(shp, pointPos), shp.normal) - shp.displacement
    IN ret_val * ret_val

Box_distanceFunctionSquared(shp, pointPos) ==
    LET q == VSub(absVal(TrPoint(shp, pointPos)), shp.extents)
    IN (IF q[1] >= 0 THEN q[1] * q[1] ELSE 0)
       + (IF q[2] >= 0 THEN q[2] * q[2] ELSE 0)
       + (IF q[3] >= 0 THEN q[3] * q[3] ELSE 0)

Sphere_distanceFunctionSquared(shp, pointPos) ==
    LET ret_val == length(VSub(pointPos, shp.position)) - shp.radius
    IN ret_val * Abs(ret_val)

Torus_distanceFunctionSquared(shp, pointPos) ==
    LET ret_val == TorusDist(TrPoint(shp, pointPos), shp.r1, shp.r2)
    IN ret_val * Abs(ret_val)

\* m * m * 0.3333333334 on the grid
MulThird(mm) == (mm * 3333) \div 10000

Octahedron_distanceFunctionSquared(shp, pointPos) ==
    LET a == absVal(TrPoint(shp, pointPos))
        s == shp.s
        m == a[1] + a[2] + a[3] - s
        r == <<a[1] * 3 - m, a[2] * 3 - m, a[3] * 3 - m>>
        q == IF r[1] < 0 THEN a
             ELSE IF r[2] < 0 THEN <<a[2], a[3], a[1]>>
             ELSE <<a[3], a[1], a[2]>>
        y_s == q[2] - s
        to_clamp == Half(q[3] - y_s)
        k == IF to_clamp < 0 THEN 0 ELSE (IF to_clamp > s THEN s ELSE to_clamp)
    IN IF r[1] >= 0 /\ r[2] >= 0 /\ r[3] >= 0
       THEN MulThird(m * m)
       ELSE q[1] * q[1] + (y_s + k) * (y_s + k) + (q[3] - k) * (q[3] - k)

Cone_distanceFunctionSquared(shp, pointPos) ==
    LET rotP == TrPoint(shp, pointPos)
        r1 == shp.form[1]
        r2 == shp.form[2]
        h == shp.form[3]
        q == <<Sqrt(rotP[1] * rotP[1] + rotP[3] * rotP[3]), rotP[2]>>
        ca == <<q[1] - Min(q[1], IF q[2] < 0 THEN r1 ELSE r2), Abs(q[2]) - h>>
        n == shp.k2[1] * (shp.k1[1] - q[1]) + shp.k2[2] * (shp.k1[2] - q[2])
        cb == <<q[1] - shp.k1[1] + MulClamp(shp.k2[1], n, shp.k2_dot_inv),
                q[2] - shp.k1[2] + MulClamp(shp.k2[2], n, shp.k2_dot_inv)>>
        s == IF cb[1] < 0 /\ ca[2] < 0 THEN -1 ELSE 1
    IN s * Min(ca[1] * ca[1] + ca[2] * ca[2], cb[1] * cb[1] + cb[2] * cb[2])

distanceFunctionSquared(shp, pointPos) ==
    CASE shp.name = "plane" -> Plane_distanceFunctionSquared(shp, pointPos)
      [] shp.name = "box" -> Box_distanceFunctionSquared(shp, pointPos)
      [] shp.name = "sphere" -> Sphere_distanceFunctionSquared(shp, pointPos)
      [] shp.name = "torus" -> Torus_distanceFunctionSquared(shp, pointPos)
      [] shp.name = "octahedron" -> Octahedron_distanceFunctionSquared(shp, pointPos)
      [] shp.name = "cone" -> Cone_distanceFunctionSquared(shp, pointPos)

\* the points probed lie within MaxOffset grid units of the shape's position
MaxOffset == 3

ProbeShapes == {NewShape(json, 1) : json \in {SphereA, BoxA, BoxR, ConeA, ConeR,
                                             OctaA, PlaneA, TorusA}}

Offsets == {<<x, y, z>> : x \in -MaxOffset..MaxOffset, y \in -MaxOffset..MaxOffset,
                          z \in -MaxOffset..MaxOffset}

InitDist ==
    /\ Renderer
    /\ NoBuild
    /\ NoAux
    /\ lighting = [pc |-> "none"]
    /\ image = NULL
    /\ \E shp \in ProbeShapes : \E off \in Offsets :
          probe = [pc |-> "drawn", shape |-> shp, point |-> VAdd(shp.position, off),
                   hasD |-> FALSE, d |-> 0, hasSq |-> FALSE, sq |-> 0]

\* the variables a call of a distance function leaves alone
distFrame ==
    <<scene, numDist, thresh, distances, numThreads, nAdds, crashed, queryVars,
      pc, traceVars, workerVars, buildVars, lighting, image, auxVars>>

Call_distanceFunction ==
    /\ probe.pc = "drawn"
    /\ ~probe.hasD
    /\ probe' = [probe EXCEPT !.hasD = TRUE,
                              !.d = distanceFunction(probe.shape, probe.point)]
    /\ UNCHANGED distFrame

Call_distanceFunctionSquared ==
    /\ probe.pc = "drawn"
    /\ ~probe.hasSq
    /\ probe' = [probe EXCEPT !.hasSq = TRUE,
                              !.sq = distanceFunctionSquared(probe.shape, probe.point)]
    /\ UNCHANGED distFrame

NextDist ==
    \/ Call_distanceFunction
    \/ Call_distanceFunctionSquared

SpecDist == InitDist /\ [][NextDist]_vars

\* sq is e * |e| for a value e within one grid unit of d: the relation
\* `squared = unsquared * |unsquared|' up to the rounding of the grid
SignedSquareOf(d, sq) ==
    /\ (d - 1) * Abs(d - 1) <= sq
    /\ sq <= (d + 1) * Abs(d + 1)

\* C12: for every shape kind and every point, inside or outside the shape,
\* distanceFunctionSquared(p) equals distanceFunction(p) * |distanceFunction(p)|,
\* so both have the same sign.
C12_SquaredIsSignedSquare ==
    (probe.pc = "drawn" /\ probe.hasD /\ probe.hasSq) => SignedSquareOf(probe.d, probe.sq)

\* the point lies strictly inside the solid the parameters of the shape
\* describe, in the shape's own frame: the ball of the radius, the box of
\* the half extents, the octahedron |x| + |y| + |z| < s, the tube of radius
\* r2 around the circle of radius r1 and the frustum of half height h.
\* For the torus and the cone, whose distances pass through rounded square
\* roots, the point is inside by at least one unit of the grid.  A plane
\* is a surface with two sides and has no inside.
StrictlyInside(shp, pointPos) ==
    LET tr == TrPoint(shp, pointPos)
        a == absVal(tr)
        rho2 == tr[1] * tr[1] + tr[3] * tr[3]
    IN CASE shp.name = "sphere" -> VDot(tr, tr) < shp.radius * shp.radius
         [] shp.name = "box" ->
              a[1] < shp.extents[1] /\ a[2] < shp.extents[2] /\ a[3] < shp.extents[3]
         [] shp.name = "octahedron" -> a[1] + a[2] + a[3] < shp.s
         [] shp.name = "torus" ->
              \E rho \in 0..(shp.r1 + shp.r2) :
                 /\ rho * rho = rho2
                 /\ (rho - shp.r1) * (rho - shp.r1) + tr[2] * tr[2]
                       <= (shp.r2 - 1) * (shp.r2 - 1)
         [] shp.name = "cone" ->
              /\ a[2] <= shp.form[3] - 1
              /\ \E rho \in 0..Min(shp.form[1], shp.form[2]) - 1 : rho2 <= rho * rho
         [] OTHER -> FALSE

\* C20: for every shape kind, distanceFunction returns a negative value for
\* every point strictly inside the shape.
C20_NegativeInside ==
    (probe.pc = "drawn" /\ probe.hasD /\ StrictlyInside(probe.shape, probe.point))
        => probe.d < 0

(***************************************************************************)
(* The colour part of Renderer::shade and Renderer::shadow (Renderer.cpp). *)
(* Colour channels and the reflection coefficient are in thousandths.  The *)
(* shadow weight is carried as a numerator over ShadowDen(circles), the    *)
(* common denominator of 1.0 and SHADOW_STEP.  The colours ambient +       *)
(* diffuse + specular, the colour the reflection trace returns and the     *)
(* answers of ObjectInBetween are inputs.                                  *)
(***************************************************************************)
\* SHADOW_MAX = 0.9, in tenths
SHADOW_MAX == 9

\* the number of circles of shadow rays (SHADOW_CIRCLES) ranges over 0..MaxCircles
MaxCircles == 1

ShadowDen(circles) == 10 * (1 + 4 * circles)

\* SHADOW_STEP = SHADOW_MAX / (1.0 + SHADOW_CIRCLES * 4.0), as a numerator
SHADOW_STEP == SHADOW_MAX

\* Vector::shadowAxes: false for the axis of the largest extent
shadowAxes_allTrue(v) == <<TRUE, TRUE, TRUE>>

shadowAxes(v) ==
    IF Abs(v[1]) > Abs(v[2]) /\ Abs(v[1]) > Abs(v[3]) THEN <<FALSE, TRUE, TRUE>>
    ELSE IF Abs(v[2]) > Abs(v[3]) THEN <<TRUE, FALSE, TRUE>>
    ELSE <<TRUE, TRUE, FALSE>>

\* the rays of the i-th pass of the loop over the circles, in the order cast
RECURSIVE CircleRays(_, _, _)
CircleRays(axes, i, k) ==
    IF k > 3 THEN <<>>
    ELSE (IF axes[k] THEN << [axis |-> k, sign |-> 1, circle |-> i],
                             [axis |-> k, sign |-> -1, circle |-> i] >>
          ELSE <<>>) \o CircleRays(axes, i, k + 1)

\* the rays shadow casts: the primary ray, then those of each circle
RECURSIVE ShadowRaysFrom(_, _, _)
ShadowRaysFrom(axes, circles, i) ==
    IF i >= circles THEN <<>>
    ELSE CircleRays(axes, i, 1) \o ShadowRaysFrom(axes, circles, i + 1)

ShadowRays(lightDir, circles) ==
    << [axis |-> 0, sign |-> 0, circle |-> -1] >>
    \o ShadowRaysFrom(shadowAxes(lightDir), circles, 0)

Black == <<0, 0, 0>>

\* Color * weight and Color + Color, channel by channel
ColorScale(c, w) == [k \in 1..3 |-> (c[k] * w) \div 1000]
ColorAdd(a, b) == [k \in 1..3 |-> a[k] + b[k]]

\* the last statements of shade: the weighted sum, the clamp to 1.0 and
\* the shadow weight num/den
Combine(base, reflection_weight, reflection_color, num, den) ==
    LET col == ColorAdd(ColorScale(base, 1000 - reflection_weight),
                        ColorScale(reflection_color, reflection_weight))
    IN [k \in 1..3 |-> (Min(col[k], 1000) * num) \div den]

BaseColours == {<<0, 0, 0>>, <<200, 400, 800>>, <<1000, 1000, 1000>>, <<1600, 1400, 900>>,
                <<1500, 1500, 1500>>}
Coefficients == {0, 400, 1000}
TraceColours == {Black, <<300, 300, 300>>}
LightDirs == {<<0, 0, 1>>, <<0, 1, 0>>, <<2, 1, 1>>, <<1, 1, 1>>}

InitShade ==
    /\ Renderer
    /\ NoBuild
    /\ NoAux
    /\ probe = [pc |-> "none"]
    /\ image = NULL
    /\ \E base \in BaseColours : \E refl \in Coefficients :
       \E ld \in LightDirs : \E c \in 0..MaxCircles :
          lighting = [pc |-> "reflect", base |-> base, reflection |-> refl,
                      reflection_weight |-> refl, reflection_color |-> Black,
                      lightDir |-> ld, circles |-> c,
                      cast |-> <<>>, occluded |-> 0, num |-> ShadowDen(c),
                      col |-> Black, escaped |-> FALSE]

\* the variables the colour part of shade leaves alone
shadeFrame ==
    <<scene, numDist, thresh, distances, numThreads, nAdds, crashed, queryVars,
      pc, traceVars, workerVars, buildVars, probe, image, auxVars>>

\* reflection_weight * 0.25
Quarter_whole(w) == w

Quarter(w) == (w * 25) \div 100

\* shade, `if (reflection_weight > 0)': the reflection trace returns c; a
\* pure black answer leaves a quarter of the weight.  sphereTrace returns
\* Color(0,0,0) when the ray escaped and the colour of shade when it hit a
\* shape, which is pure black for an unlit hit on a black shape.
shade_reflection(c) ==
    /\ lighting.pc = "reflect"
    /\ IF lighting.reflection_weight > 0
       THEN \E esc \in (IF c = Black THEN BOOLEAN ELSE {FALSE}) :
              lighting' = [lighting EXCEPT
                !.pc = "shadow",
                !.reflection_color = c,
                !.escaped = esc,
                !.reflection_weight = IF c = Black THEN Quarter(@) ELSE @]
       ELSE /\ c = Black
            /\ lighting' = [lighting EXCEPT !.pc = "shadow"]
    /\ UNCHANGED shadeFrame

\* shadow: the next call of ObjectInBetween answers `occ'
shadow_cast(occ) ==
    /\ lighting.pc = "shadow"
    /\ Len(lighting.cast) < Len(ShadowRays(lighting.lightDir, lighting.circles))
    /\ lighting' = [lighting EXCEPT
            !.cast = Append(@, ShadowRays(lighting.lightDir,
                                          lighting.circles)[Len(@) + 1]),
            !.occluded = IF occ THEN @ + 1 ELSE @,
            !.num = IF occ THEN @ - SHADOW_STEP ELSE @]
    /\ UNCHANGED shadeFrame

\* shadow returns and shade combines the colours
shade_combine ==
    /\ lighting.pc = "shadow"
    /\ Len(lighting.cast) = Len(ShadowRays(lighting.lightDir, lighting.circles))
    /\ lighting' = [lighting EXCEPT
            !.pc = "done",
            !.col = Combine(lighting.base, lighting.reflection_weight,
                            lighting.reflection_color, lighting.num,
                            ShadowDen(lighting.circles))]
    /\ UNCHANGED shadeFrame

NextShade ==
    \/ \E c \in TraceColours : shade_reflection(c)
    \/ \E occ \in BOOLEAN : shadow_cast(occ)
    \/ shade_combine

SpecShade == InitShade /\ [][NextShade]_vars

\* the colour the hit would have with reflection = 0: same ambient,
\* diffuse and specular colours, same shadow weight
Unreflected == Combine(lighting.base, 0, Black, lighting.num,
                       ShadowDen(lighting.circles))

\* the trace of the reflection ray of a shape with reflection = 1 has
\* returned pure black and shade has returned
EscapedReflection ==
    /\ lighting.pc = "done"
    /\ lighting.reflection = 1000
    /\ lighting.reflection_color = Black

\* C13 as stated: when the coefficient is > 0 and the reflection trace
\* returns pure black, the weight used in the combination is a quarter of
\* the coefficient; so with reflection = 1 and nothing to reflect the
\* colour of the hit is darker than the colour the same hit has with
\* reflection = 0 (no channel brighter, at least one channel darker).
C13_QuarterWeightDarker ==
    /\ (lighting.pc = "done" /\ lighting.reflection > 0
           /\ lighting.reflection_color = Black) =>
              4 * lighting.reflection_weight = lighting.reflection
    /\ EscapedReflection =>
          /\ \A k \in 1..3 : lighting.col[k] <= Unreflected[k]
          /\ \E k \in 1..3 : lighting.col[k] < Unreflected[k]

\* C13 amended: when the coefficient is > 0 and the reflection trace
\* returns pure black, the weight used in the combination is a quarter of
\* the coefficient; with reflection = 1 the colour of the hit is then in
\* no channel brighter than with reflection = 0, and it is darker in every
\* channel whose sum ambient + diffuse + specular is above 0 and below
\* 4/3 (a channel of 4/3 or more is clamped to 1.0 in both colours).
C13_QuarterWeight ==
    /\ (lighting.pc = "done" /\ lighting.reflection > 0
           /\ lighting.reflection_color = Black) =>
              4 * lighting.reflection_weight = lighting.reflection
    /\ EscapedReflection =>
          \A k \in 1..3 :
             /\ lighting.col[k] <= Unreflected[k]
             /\ (0 < lighting.base[k] /\ 3 * lighting.base[k] < 4000) =>
                   lighting.col[k] < Unreflected[k]

\* a lit, unsaturated hit on a shape with reflection = 1 whose reflection
\* ray escaped, in the shadow of another ray
C13_Witness ==
    /\ EscapedReflection
    /\ lighting.reflection_weight = 250
    /\ lighting.base = <<200, 400, 800>>
    /\ lighting.occluded >= 1
    /\ lighting.col[3] < Unreflected[3]

\* C14: shadow casts exactly 1 + 4 * circles rays, the primary ray and for
\* each circle two rays on each of exactly two axes; every occluded ray
\* takes SHADOW_MAX / (1 + 4 * circles) off the weight, which stays in
\* [1 - SHADOW_MAX, 1] and above zero.
C14_ShadowWeight ==
    lighting.pc = "done" =>
        /\ Len(lighting.cast) = 1 + 4 * lighting.circles
        /\ lighting.cast[1].axis = 0
        /\ \A i \in 0..(lighting.circles - 1) :
              /\ Cardinality({lighting.cast[j].axis : j \in
                    {n \in 2..Len(lighting.cast) : lighting.cast[n].circle = i}}) = 2
              /\ \A j \in {n \in 2..Len(lighting.cast) : lighting.cast[n].circle = i} :
                    \E n \in 2..Len(lighting.cast) :
                       /\ lighting.cast[n].circle = i
                       /\ lighting.cast[n].axis = lighting.cast[j].axis
                       /\ lighting.cast[n].sign = -lighting.cast[j].sign
        /\ lighting.num * (1 + 4 * lighting.circles) =
              ShadowDen(lighting.circles) * (1 + 4 * lighting.circles)
              - lighting.occluded * SHADOW_MAX * (1 + 4 * lighting.circles)
        /\ lighting.num <= ShadowDen(lighting.circles)
        /\ 10 * lighting.num >= (10 - SHADOW_MAX) * ShadowDen(lighting.circles)
        /\ lighting.num > 0

\* every ray of a shadow with one circle was occluded
C14_Witness ==
    /\ lighting.pc = "done"
    /\ lighting.circles >= 1
    /\ lighting.occluded = Len(lighting.cast)
    /\ lighting.occluded = 1 + 4 * lighting.circles

\* C27: the reflection weight is quartered only when the reflection ray
\* escaped; a reflection ray that hit a shape never causes the dampening,
\* whatever colour the hit was shaded to.
C27_QuarteredOnlyOnEscape ==
    (lighting.pc \in {"shadow", "done"} /\ lighting.reflection_weight # lighting.reflection)
        => lighting.escaped

(***************************************************************************)
(* Renderer::renderScene with the Image and the rows of the parallel loop  *)
(* of renderPixels.  Every row is run by one worker of the team, whichever *)
(* the schedule gives it to; the worker goes through the pixels of the row *)
(* in order.  Of the trace of a pixel the getMinDistances call at the      *)
(* pixel's sample point is kept, and the colour written is what that call  *)
(* returned.  `alive' counts the Image objects allocated and not deleted.  *)
(***************************************************************************)
MaxRows == 2
MaxCols == 2
MaxRenders == 2

NoPixel == [writes |-> 0, by |-> -1, col |-> NoResult]

FreeWorker == [row |-> -1, col |-> 0, busy |-> FALSE]

\* the point at which the trace of pixel (i, j) asks for the distances
PixelRay(i, j) == <<j, 0, 4 * i>>

\* the outputs of getMinDistances(.., p) when no other call runs
Sequential(p) ==
    LET r == ScanAndMap(scene, thresh, numDist,
                        EvalLoops(scene, numDist, distances, 0, p), 0, NULL)
    IN [minIdx |-> r.minIdx, minDist |-> r.minDist, min2Dist |-> r.min2Dist,
        closestShape |-> r.closestShape.addr]

ImagesAlive == IF image = NULL THEN 0 ELSE image.alive
RendersMade == IF image = NULL THEN 0 ELSE image.renders

InitPix ==
    /\ \E file \in ParFiles, nt \in 1..MaxThreads : \E r \in {addScene(file, nt)} :
          /\ scene = r.scene
          /\ numDist = r.numDist
          /\ numThreads = r.numThreads
          /\ distances = r.distances
          /\ thresh = r.thresh
    /\ nAdds = 0
    /\ crashed = FALSE
    /\ ray = <<0, 0, 0>>
    /\ minDistance = FTYPE_MAX
    /\ min2Distance = FTYPE_MAX
    /\ closestShape = NULL
    /\ minIdx = -1
    /\ pc = "idle"
    /\ NoTrace
    /\ NoWorkers
    /\ NoExt

\* Renderer::renderScene up to the parallel region of renderPixels:
\* `this->image = new Image(..)', the scan at the camera on the calling
\* thread, then the team starts
renderScene ==
    /\ pc \in {"idle", "added"}
    /\ ~crashed
    /\ RendersMade < MaxRenders
    /\ image' = [alive |-> ImagesAlive + 1,
                 renders |-> RendersMade + 1,
                 width |-> MaxCols,
                 height |-> MaxRows,
                 pixels |-> [n \in 0..(MaxRows * MaxCols - 1) |-> NoPixel],
                 unclaimed |-> 0..(MaxRows - 1),
                 cur |-> [k \in 0..(numThreads - 1) |-> FreeWorker]]
    /\ pc' = "parallel"
    /\ ray' = scene.cameraPos
    /\ getMinDistances(scene.cameraPos)
    /\ crashed' \in (IF Overflows(scene, numDist, distances, 0)
                     THEN {FALSE, TRUE} ELSE {FALSE})
    /\ wpc' = [k \in 0..(numThreads - 1) |-> "idle"]
    /\ wray' = [k \in 0..(numThreads - 1) |-> <<0, 0, 0>>]
    /\ wgrp' = [k \in 0..(numThreads - 1) |-> 0]
    /\ wres' = [k \in 0..(numThreads - 1) |-> NoResult]
    /\ touched' = {}
    /\ UNCHANGED <<scene, numDist, thresh, numThreads, nAdds, traceVars,
                   buildVars, probe, lighting, auxVars>>

\* what the steps of the row workers leave alone besides the image
rowFrame ==
    <<rendererVars, nAdds, crashed, queryVars, pc, traceVars, buildVars, probe,
      lighting, auxVars>>

\* the schedule gives row r to worker k
Row_take(k, r) ==
    /\ pc = "parallel"
    /\ ~crashed
    /\ k \in DOMAIN wpc
    /\ image.cur[k].row = -1
    /\ r \in image.unclaimed
    /\ image' = [image EXCEPT !.unclaimed = @ \ {r},
                              !.cur[k] = [row |-> r, col |-> 0, busy |-> FALSE]]
    /\ UNCHANGED <<rowFrame, workerVars>>

\* worker k starts the trace of its next pixel and enters getMinDistances
Pixel_trace(k) ==
    /\ pc = "parallel"
    /\ ~crashed
    /\ k \in DOMAIN wpc
    /\ image.cur[k].row # -1
    /\ ~image.cur[k].busy
    /\ wpc[k] = "idle"
    /\ image' = [image EXCEPT !.cur[k].busy = TRUE]
    /\ wpc' = [wpc EXCEPT ![k] = "loops"]
    /\ wray' = [wray EXCEPT ![k] = PixelRay(image.cur[k].row, image.cur[k].col)]
    /\ wgrp' = [wgrp EXCEPT ![k] = 0]
    /\ UNCHANGED <<rowFrame, wres, touched>>

\* pixels[i * width + j].writeColor(col), then the next j
Pixel_write(k) ==
    /\ pc = "parallel"
    /\ ~crashed
    /\ k \in DOMAIN wpc
    /\ image.cur[k].busy
    /\ wpc[k] = "idle"
    /\ \E n \in {image.cur[k].row * image.width + image.cur[k].col} :
          image' = [image EXCEPT
             !.pixels[n] = [writes |-> @.writes + 1, by |-> k, col |-> wres[k]],
             !.cur[k] = IF image.cur[k].col + 1 < image.width
                        THEN [row |-> image.cur[k].row,
                              col |-> image.cur[k].col + 1, busy |-> FALSE]
                        ELSE FreeWorker]
    /\ UNCHANGED <<rowFrame, workerVars>>

\* the parallel region ends and renderScene returns
renderScene_return ==
    /\ pc = "parallel"
    /\ ~crashed
    /\ image.unclaimed = {}
    /\ \A k \in DOMAIN wpc : image.cur[k] = FreeWorker
    /\ pc' = "idle"
    /\ wpc' = <<>>
    /\ wray' = <<>>
    /\ wgrp' = <<>>
    /\ wres' = <<>>
    /\ touched' = {}
    /\ UNCHANGED <<rendererVars, nAdds, crashed, queryVars, traceVars, extVars>>

NextPix ==
    \/ \E json \in AddCatalogue, type \in ShapeTypes : AddShape(json, type)
    \/ renderScene
    \/ \E k \in 0..(MaxThreads - 1), r \in 0..(MaxRows - 1) : Row_take(k, r)
    \/ \E k \in 0..(MaxThreads - 1) : Pixel_trace(k)
    \/ \E k \in 0..(MaxThreads - 1) : Worker_loop(k)
    \/ \E k \in 0..(MaxThreads - 1) : Worker_scan(k)
    \/ \E k \in 0..(MaxThreads - 1) : Pixel_write(k)
    \/ renderScene_return

SpecPix == InitPix /\ [][NextPix]_vars

\* C15: for every interleaving of the row workers and every worker count
\* each pixel is written at most once while the region runs and exactly
\* once when it has ended, by the one worker that ran its row, and the
\* colour written is the colour sequential execution gives the pixel.
C15_PixelsIndependent ==
    image # NULL =>
        /\ \A n \in DOMAIN image.pixels :
              /\ image.pixels[n].writes <= 1
              /\ image.pixels[n].writes = 1 =>
                    image.pixels[n].col =
                       Sequential(PixelRay(n \div image.width, n % image.width))
        /\ (pc = "idle" /\ ~crashed) =>
              \A n \in DOMAIN image.pixels : image.pixels[n].writes = 1
        /\ \A n1 \in DOMAIN image.pixels : \A n2 \in DOMAIN image.pixels :
              (/\ n1 \div image.width = n2 \div image.width
               /\ image.pixels[n1].writes = 1
               /\ image.pixels[n2].writes = 1) =>
                  image.pixels[n1].by = image.pixels[n2].by

\* C16: between the start and the end of a renderScene call no field of
\* the Scene, of a Shape or of a batch wrapper changes, and the stores of
\* the render go to the pixels of the Image and to entries of the
\* distance buffer only.
C16_RenderFrame ==
    /\ [][(pc = "parallel" \/ pc' = "parallel") => scene' = scene]_vars
    /\ [](pc = "parallel" => \A e \in touched : e[2] \in DOMAIN distances)

\* C17: each renderScene call creates a fresh Image and destroys or
\* replaces the Image of the render before, so after any number of calls
\* exactly one Image is alive.
C17_OneImageAlive ==
    image # NULL => image.alive = 1

(***************************************************************************)
(* One batch wrapper that receives shape after shape, as the loop of       *)
(* Scene::Scene over the objects of a scene file, or repeated              *)
(* Scene::addShape calls, fill it (SphereShapes.cpp, add<Kind>).           *)
(***************************************************************************)
\* the number of shapes of one kind added, one more than the arrays hold
MaxFill == 17

\* the empty wrapper of a shape's kind and the add function of that kind
WrapperFor(shape) ==
    CASE shape.name = "box" -> BoxWrapper [] shape.name = "cone" -> ConeWrapper
      [] shape.name = "octahedron" -> OctaWrapper [] shape.name = "plane" -> PlaneWrapper
      [] shape.name = "sphere" -> SphereWrapper [] shape.name = "torus" -> TorusWrapper

addKind(w, shape) ==
    CASE shape.name = "box" -> addBox(w, shape) [] shape.name = "cone" -> addCone(w, shape)
      [] shape.name = "octahedron" -> addOcta(w, shape)
      [] shape.name = "plane" -> addPlane(w, shape)
      [] shape.name = "sphere" -> addSphere(w, shape)
      [] shape.name = "torus" -> addTorus(w, shape)

InitFill ==
    /\ Renderer
    /\ NoBuild
    /\ probe = [pc |-> "none"]
    /\ lighting = [pc |-> "none"]
    /\ image = NULL
    /\ prog = [pc |-> "none"]
    /\ \E shape \in ProbeShapes :
          filled = [pc |-> "filling", shape |-> shape, w |-> WrapperFor(shape),
                    slot |-> -1, adds |-> 0]

\* add<Kind>(shape): the SoA slot written is the populated count before
\* the call; no statement compares it with MAX_OBJECTS
Wrapper_add ==
    /\ filled.pc = "filling"
    /\ filled.adds < MaxFill
    /\ filled' = [filled EXCEPT !.w = addKind(@, filled.shape),
                                !.slot = filled.w.numElems,
                                !.adds = @ + 1]
    /\ UNCHANGED <<rendererVars, nAdds, crashed, queryVars, pc, traceVars,
                   workerVars, buildVars, probe, lighting, image, prog>>

NextFill == Wrapper_add

SpecFill == InitFill /\ [][NextFill]_vars

\* C24: for every sequence of add operations on a batch wrapper, no SoA
\* array slot at an index >= MAX_OBJECTS is written and the populated
\* count stays <= MAX_OBJECTS.
C24_SlotsInRange ==
    filled.pc = "filling" =>
        /\ filled.slot < MAX_OBJECTS
        /\ filled.w.numElems <= MAX_OBJECTS

(***************************************************************************)
(* The programs of the repository: main of sphere_miniapp and main of      *)
(* sphere_benchmark in its timed and its count-ops mode.  Each iteration   *)
(* of their loops constructs a Renderer of its own, which the end of the   *)
(* iteration destroys.  `prog' is the position of main; the parallel       *)
(* region of a renderScene call is taken under the schedule that gives     *)
(* thread 0 every row.                                                     *)
(***************************************************************************)
numImages == 3
MaxReps == 2
MaxSceneNr == 2

\* "../scenes/scene<nr>.json": the scene files on disk; no file has the
\* last number
SceneOnDisk(nr) ==
    CASE nr = 0 -> [cameraPos |-> <<0, 0, 0>>, lightPos |-> <<0, 0, 0>>,
                    objects |-> <<SphereA>>]
      [] nr = 1 -> [cameraPos |-> <<0, 0, 0>>, lightPos |-> <<0, 0, 0>>,
                    objects |-> <<BoxA, SphereA>>]
      [] OTHER -> NULL

\* the command lines: --scenes of the miniapp, --scene, --countops and
\* --repetitions of the benchmark, which is built with or without
\* BENCHMARKS_COUNT_OP
Programs ==
    {[program |-> "sphere_miniapp", mode |-> "miniapp", countOp |-> FALSE,
      scenes |-> sc] : sc \in SeqsUpTo(0..MaxSceneNr, 2)}
    \cup {[program |-> "sphere_benchmark",
           mode |-> IF co THEN "countops" ELSE "timed", countOp |-> def,
           scenes |-> [n \in 1..(IF co THEN numImages ELSE numImages * reps) |-> nr]] :
             co \in BOOLEAN, def \in BOOLEAN, nr \in 0..MaxSceneNr, reps \in 1..MaxReps}

\* main up to its loop; the benchmark leaves with -1 when the mode asked
\* for is not the one it was compiled for
InitMain ==
    /\ Renderer
    /\ NoBuild
    /\ probe = [pc |-> "none"]
    /\ lighting = [pc |-> "none"]
    /\ image = NULL
    /\ filled = [pc |-> "none"]
    /\ \E a \in Programs :
          prog = [pc |-> IF a.program = "sphere_benchmark"
                            /\ a.countOp # (a.mode = "countops")
                         THEN "exit" ELSE "loop",
                  program |-> a.program, mode |-> a.mode, scenes |-> a.scenes,
                  next |-> 1, renders |-> 0, onNull |-> 0]

mainFrame ==
    <<nAdds, pc, traceVars, workerVars, buildVars, probe, lighting, filled>>

\* `sphere::Renderer r;' at the top of the loop body
main_Renderer ==
    /\ prog.pc = "loop"
    /\ prog.next <= Len(prog.scenes)
    /\ prog' = [prog EXCEPT !.pc = "constructed"]
    /\ scene' = NULL
    /\ image' = NULL
    /\ distances' = NULL
    /\ UNCHANGED <<numDist, thresh, numThreads, crashed, queryVars, mainFrame>>

\* `r.addScene(path)' of the miniapp and of the timed benchmark: the
\* exception of a scene file that cannot be opened leaves main
main_addScene(nt) ==
    /\ prog.pc = "constructed"
    /\ prog.mode # "countops"
    /\ LET file == SceneOnDisk(prog.scenes[prog.next])
       IN IF file = NULL
          THEN /\ prog' = [prog EXCEPT !.pc = "terminated"]
               /\ UNCHANGED rendererVars
          ELSE /\ prog' = [prog EXCEPT !.pc = "added"]
               /\ \E r \in {addScene(file, nt)} :
                     /\ scene' = r.scene
                     /\ numDist' = r.numDist
                     /\ numThreads' = r.numThreads
                     /\ distances' = r.distances
                     /\ thresh' = r.thresh
    /\ UNCHANGED <<crashed, queryVars, image, mainFrame>>

\* `r.renderScene(path, width, height)'.  The call reads
\* this->scene->cameraFov first: through a null scene the read is undefined
\* and the process ends or goes on with an image nobody wrote.
main_renderScene ==
    /\ \/ prog.pc = "added"
       \/ prog.pc = "constructed" /\ prog.mode = "countops"
    /\ prog' = [prog EXCEPT !.pc = "rendered", !.renders = @ + 1,
                            !.onNull = IF scene = NULL THEN @ + 1 ELSE @]
    /\ IF scene = NULL
       THEN /\ crashed' \in BOOLEAN
            /\ image' = [alive |-> 1, renders |-> 1, width |-> MaxCols,
                         height |-> MaxRows,
                         pixels |-> [n \in 0..(MaxRows * MaxCols - 1) |-> NoPixel],
                         unclaimed |-> {}, cur |-> <<>>]
            /\ UNCHANGED <<distances, queryVars>>
       ELSE /\ crashed' = crashed
            /\ ray' = scene.cameraPos
            /\ getMinDistances(scene.cameraPos)
            /\ image' = [alive |-> 1, renders |-> 1, width |-> MaxCols,
                         height |-> MaxRows,
                         pixels |-> [n \in 0..(MaxRows * MaxCols - 1) |->
                                       [writes |-> 1, by |-> 0,
                                        col |-> Sequential(PixelRay(n \div MaxCols,
                                                                    n % MaxCols))]],
                         unclaimed |-> {}, cur |-> <<>>]
    /\ UNCHANGED <<scene, numDist, thresh, numThreads, mainFrame>>

\* the end of the loop body: ~Renderer deletes scene, image and distances
main_next ==
    /\ prog.pc = "rendered"
    /\ ~crashed
    /\ prog' = [prog EXCEPT !.pc = "loop", !.next = @ + 1]
    /\ scene' = NULL
    /\ image' = NULL
    /\ distances' = NULL
    /\ UNCHANGED <<numDist, thresh, numThreads, crashed, queryVars, mainFrame>>

\* main returns after the last iteration
main_return ==
    /\ prog.pc = "loop"
    /\ prog.next > Len(prog.scenes)
    /\ prog' = [prog EXCEPT !.pc = "exit"]
    /\ UNCHANGED <<rendererVars, crashed, queryVars, image, mainFrame>>

NextMain ==
    \/ main_Renderer
    \/ \E nt \in 1..MaxThreads : main_addScene(nt)
    \/ main_renderScene
    \/ main_next
    \/ main_return

SpecMain == InitMain /\ [][NextMain]_vars

\* C29: renderScene is executed only on a Renderer whose addScene has
\* completed: no call sequence of the example and benchmark programs
\* renders with a Renderer whose scene is still null.
C29_RenderAfterAddScene ==
    prog.pc # "none" => prog.onNull = 0

\* the miniapp and the timed benchmark render only after addScene
RendersAfterAddScene ==
    (prog.pc # "none" /\ prog.mode # "countops") => prog.onNull = 0

=============================================================================
